---- MODULE Spec2Model ----
(***************************************************************************)
(* A model of the CodeBrain ingestion code: the tree walkers of            *)
(* JavaScriptAnalyzer (js_ingest.py), JSChunkAdaptor.normalize             *)
(* (js_chunk_adaptor.py), the module-level ingestion script                *)
(* (to_embeding.py) and embeddAnswer (vectorizer.py).                      *)
(*                                                                         *)
(* Source text is a byte string; a syntax tree is a nested record of      *)
(* nodes carrying type, start_byte, end_byte, children and the field      *)
(* labels of its children, as the tree-sitter binding exposes them.        *)
(***************************************************************************)
EXTENDS Integers, Sequences, FiniteSets, TLC

\* ------------------------------------------------------------------ bounds

\* Size of the repository directory: its files plus their top-level statements.
MaxRepoSize == 3
\* Executions of the ingestion script on the same directory.
MaxRuns == 2
\* Invocations of embeddAnswer.
MaxEmbedCalls == 3

\* The largest reading of the clock.
MaxClock == 1
\* Statements in the body of a method handed to the adaptor.
MaxBody == 3
\* Documents that the vector store's collection may hold.
MaxDocs == 5
\* Statements of a file made of import statements.
MaxImports == 3
\* The latest time, of the clock and of a coupon's expiry.
MaxTime == 2
\* Rows of the coupons table.
MaxCoupons == 2
\* Service calls in progress at the same time.
MaxInflight == 2
\* Rows of the users table.
MaxUsers == 3
\* Rows of the payments table.
MaxPayments == 1
\* The largest stock of a product and the largest quantity of a cart item.
MaxStock == 2
\* Rows ever inserted into the cart_items table.
MaxItems == 2
\* The largest quantity repeated additions may bring a cart item to.
MaxQuantity == 3
\* Chunk objects constructed side by side for comparison.
MaxMade == 2

\* ------------------------------------------------------------------- state

VARIABLES
    \* the ingestion script (to_embeding.py)
    disk,       \* the files under REPO_PATH, in os.walk order
    pc,         \* the script's position
    files,      \* read_repos' result
    fi,         \* index of the loop over files
    script_code, \* the script's variable code
    parsed_js,  \* what analyze gave normalize: its dict or its exception
    chunks,     \* normalize's result
    ci,         \* index of the loop over chunks
    stdout,     \* the lines printed by this run
    exc,        \* the exception that ended the run, "" if none
    run,        \* number of the current run of the script
    hashseed,   \* the string hash seed of the current process
    log,        \* the finished runs
    \* Chunk objects constructed by a caller
    clock,      \* the time
    made,       \* the chunks constructed so far, each with its time
    \* embeddAnswer (vectorizer.py)
    embedPc,    \* "idle", or "calling" while the provider is asked
    answer,     \* the argument of the call in progress
    attempts,   \* provider requests made by the call in progress
    embedLog,   \* the finished calls
    \* query_chroma_db (chroma.py)
    collection, \* the documents in the vector store's collection
    wanted,     \* the caller's query and the number of results it wants
    results,    \* what query_chroma_db returned
    \* the shop services (ecommerce-api)
    products,   \* the products table: id -> row
    carts,      \* the carts table: cart id -> row
    cart_items, \* the cart_items table: item id -> row
    users,      \* the users table: id -> row
    response,   \* the outcome of the last service call
    coupons,    \* the coupons table: id -> row
    payments,   \* the payments table: id -> row
    now,        \* datetime.utcnow()
    inflight    \* the service calls that have started and not yet ended

scriptVars == <<disk, pc, files, fi, script_code, parsed_js, chunks, ci, stdout, exc, run, hashseed, log>>
chunkVars == <<clock, made>>
embedVars == <<embedPc, answer, attempts, embedLog>>
queryVars == <<collection, wanted, results>>
shopVars == <<products, carts, cart_items, users, response>>
storeVars == <<coupons, payments, now, inflight>>
serviceVars == <<queryVars, shopVars, storeVars>>
vars == <<scriptVars, chunkVars, embedVars, serviceVars>>

\* ------------------------------------------------------------ syntax trees

FieldNames == {"name", "parameters", "parameter", "value", "body", "left", "function"}

NoFields == [f \in FieldNames |-> 0]

\* Python's None, returned by child_by_field_name for an absent field.
None == [type |-> "None", start_byte |-> 0, end_byte |-> 0,
         fields |-> NoFields, children |-> <<>>]

Node(type, start, end, fields, children) ==
    [type |-> type, start_byte |-> start, end_byte |-> end,
     fields |-> fields, children |-> children]

Leaf(type, start, text) == Node(type, start, start + Len(text), NoFields, <<>>)

\* A set of field labels: field name -> index of the labelled child.
Fields(pairs) ==
    [f \in FieldNames |->
        IF \E p \in pairs : p[1] = f
        THEN (CHOOSE p \in pairs : p[1] = f)[2]
        ELSE 0]

child_by_field_name(n, f) ==
    IF n.fields[f] = 0 THEN None ELSE n.children[n.fields[f]]

\* code[node.start_byte:node.end_byte].decode("utf-8")
node_text(code, node) == SubSeq(code, node.start_byte + 1, node.end_byte)

\* ------------------------------------------- source files and their trees
\* A source file is described by its statements; Parse builds from the
\* description the file's text and the tree the grammar gives for it, with
\* every node's byte span placed in that text.  name = "" describes a node
\* whose name field is absent.

Stmt(kind, name, params, value, body) ==
    [kind |-> kind, name |-> name, params |-> params, value |-> value, body |-> body]

Ident(id) == [type |-> "identifier", id |-> id]
Defaulted(id) == [type |-> "assignment_pattern", id |-> id]

ParamText(p) == IF p.type = "identifier" THEN p.id ELSE p.id \o " = 1"

ParamNode(start, p) ==
    IF p.type = "identifier"
    THEN Leaf("identifier", start, p.id)
    ELSE Node("assignment_pattern", start, start + Len(p.id) + 4,
              Fields({<<"left", 1>>}),
              << Leaf("identifier", start, p.id),
                 Leaf("=", start + Len(p.id) + 1, "="),
                 Leaf("number", start + Len(p.id) + 3, "1") >>)

\* A built piece of source: its node (or nodes) and its text.
Built(node, text) == [node |-> node, text |-> text]
BuiltList(children, text) == [children |-> children, text |-> text]

\* A list's first element followed by the rest, sep between them.
Cons(first, sep, rest, text) ==
    BuiltList(<<first>> \o sep \o rest.children, text \o rest.text)

RECURSIVE ParamList(_, _)
ParamList(start, ps) ==
    IF ps = <<>> THEN BuiltList(<<>>, "")
    ELSE IF Len(ps) = 1
    THEN BuiltList(<<ParamNode(start, Head(ps))>>, ParamText(Head(ps)))
    ELSE Cons(ParamNode(start, Head(ps)),
              <<Leaf(",", start + Len(ParamText(Head(ps))), ",")>>,
              ParamList(start + Len(ParamText(Head(ps))) + 2, Tail(ps)),
              ParamText(Head(ps)) \o ", ")

\* open L close, as a node of the given type.
Enclosed(type, start, open, L, close) ==
    Built(Node(type, start, start + Len(open) + Len(L.text) + Len(close), NoFields,
               <<Leaf("{", start, "{")>> \o L.children
                  \o <<Leaf("}", start + Len(open) + Len(L.text) + Len(close) - 1, "}")>>),
          open \o L.text \o close)

FormalParametersOf(start, L) ==
    Built(Node("formal_parameters", start, start + Len(L.text) + 2, NoFields,
               <<Leaf("(", start, "(")>> \o L.children
                  \o <<Leaf(")", start + Len(L.text) + 1, ")")>>),
          "(" \o L.text \o ")")

FormalParameters(start, ps) == FormalParametersOf(start, ParamList(start + 1, ps))

\* An identifier, or a member expression object.property.
Reference(start, object, property) ==
    IF object = ""
    THEN Built(Leaf("identifier", start, property), property)
    ELSE Built(Node("member_expression", start,
                    start + Len(object) + 1 + Len(property), NoFields,
                    << Leaf(IF object = "this" THEN "this" ELSE "identifier",
                            start, object),
                       Leaf(".", start + Len(object), "."),
                       Leaf("property_identifier", start + Len(object) + 1,
                            property) >>),
               object \o "." \o property)

\* x + 1
BinaryExpression(start, x) ==
    Node("binary_expression", start, start + Len(x) + 4, Fields({<<"left", 1>>}),
         << Leaf("identifier", start, x),
            Leaf("+", start + Len(x) + 1, "+"),
            Leaf("number", start + Len(x) + 3, "1") >>)

\* (x) => x + 1
ArrowOf(start, P, x) ==
    Built(Node("arrow_function", start, P.node.end_byte + 4 + Len(x) + 4,
               Fields({<<"parameters", 1>>, <<"body", 3>>}),
               <<P.node, Leaf("=>", P.node.end_byte + 1, "=>"),
                 BinaryExpression(P.node.end_byte + 4, x)>>),
          P.text \o " => " \o x \o " + 1")

\* x => x + 1: a single parameter written without parentheses
BareArrow(start, x) ==
    Built(Node("arrow_function", start, start + Len(x) + 4 + Len(x) + 4,
               Fields({<<"parameter", 1>>, <<"body", 3>>}),
               <<Leaf("identifier", start, x), Leaf("=>", start + Len(x) + 1, "=>"),
                 BinaryExpression(start + Len(x) + 4, x)>>),
          x \o " => " \o x \o " + 1")

\* function (a) {}
FunctionExpressionOf(start, P) ==
    Built(Node("function_expression", start, P.node.end_byte + 3,
               Fields({<<"parameters", 2>>, <<"body", 3>>}),
               <<Leaf("function", start, "function"), P.node,
                 Node("statement_block", P.node.end_byte + 1, P.node.end_byte + 3,
                      NoFields,
                      <<Leaf("{", P.node.end_byte + 1, "{"),
                        Leaf("}", P.node.end_byte + 2, "}")>>)>>),
          "function " \o P.text \o " {}")

\* The value of a variable declarator.
ValueNode(start, s) ==
    CASE s.value = "number" -> Built(Leaf("number", start, "1"), "1")
      [] s.value = "string" ->
           Built(Node("string", start, start + 4, NoFields,
                      <<Leaf("string_fragment", start + 1, "fs")>>), "'fs'")
      [] s.value = "function_expression" ->
           FunctionExpressionOf(start, FormalParameters(start + 9, s.params))
      [] s.value = "arrow" ->
           ArrowOf(start, FormalParameters(start, s.params),
                   IF s.params = <<>> THEN "0" ELSE Head(s.params).id)
      [] s.value = "arrow1" -> BareArrow(start, Head(s.params).id)

\* function foo(a, b) {}
FunctionDeclarationOf(start, name, P, B) ==
    Built(Node("function_declaration", start, B.node.end_byte,
               IF name # ""
               THEN Fields({<<"name", 2>>, <<"parameters", 3>>, <<"body", 4>>})
               ELSE Fields({<<"parameters", 2>>, <<"body", 3>>}),
               <<Leaf("function", start, "function")>>
                  \o (IF name # "" THEN <<Leaf("identifier", start + 9, name)>> ELSE <<>>)
                  \o <<P.node, B.node>>),
          "function " \o name \o P.text \o " " \o B.text)

\* const bar;
BareDeclaration(start, name) ==
    Built(Node("lexical_declaration", start, start + 6 + Len(name) + 1, NoFields,
               << Leaf("const", start, "const"),
                  Node("variable_declarator", start + 6, start + 6 + Len(name),
                       Fields({<<"name", 1>>}),
                       <<Leaf("identifier", start + 6, name)>>),
                  Leaf(";", start + 6 + Len(name), ";") >>),
          "const " \o name \o ";")

\* const bar = (x) => x + 1;   (eq is where the = stands)
LexicalDeclarationOf(start, name, eq, V) ==
    Built(Node("lexical_declaration", start, V.node.end_byte + 1, NoFields,
               << Leaf("const", start, "const"),
                  Node("variable_declarator", start + 6, V.node.end_byte,
                       IF name # ""
                       THEN Fields({<<"name", 1>>, <<"value", 3>>})
                       ELSE Fields({<<"value", 2>>}),
                       (IF name # "" THEN <<Leaf("identifier", start + 6, name)>>
                        ELSE <<>>)
                          \o <<Leaf("=", eq, "="), V.node>>),
                  Leaf(";", V.node.end_byte, ";") >>),
          "const " \o name \o (IF name # "" THEN " " ELSE "") \o "= " \o V.text \o ";")

\* class Foo { m(a) {} }
ClassDeclarationOf(start, name, B) ==
    Built(Node("class_declaration", start, B.node.end_byte,
               IF name # ""
               THEN Fields({<<"name", 2>>, <<"body", 3>>})
               ELSE Fields({<<"body", 2>>}),
               <<Leaf("class", start, "class")>>
                  \o (IF name # "" THEN <<Leaf("identifier", start + 6, name)>> ELSE <<>>)
                  \o <<B.node>>),
          "class " \o name \o (IF name # "" THEN " " ELSE "") \o B.text)

\* m(a) { this.x = 1; }
MethodDefinitionOf(start, name, P, B) ==
    Built(Node("method_definition", start, B.node.end_byte,
               IF name # ""
               THEN Fields({<<"name", 1>>, <<"parameters", 2>>, <<"body", 3>>})
               ELSE Fields({<<"parameters", 1>>, <<"body", 2>>}),
               (IF name # "" THEN <<Leaf("property_identifier", start, name)>> ELSE <<>>)
                  \o <<P.node, B.node>>),
          name \o P.text \o " " \o B.text)

\* go();   this.go();
CallStatementOf(start, R) ==
    Built(Node("expression_statement", start, R.node.end_byte + 3, NoFields,
               << Node("call_expression", start, R.node.end_byte + 2,
                       Fields({<<"function", 1>>}),
                       <<R.node, Leaf("arguments", R.node.end_byte, "()")>>),
                  Leaf(";", R.node.end_byte + 2, ";") >>),
          R.text \o "();")

\* this.x = 1;   x = 1;
AssignmentStatementOf(start, R) ==
    Built(Node("expression_statement", start, R.node.end_byte + 5, NoFields,
               << Node("assignment_expression", start, R.node.end_byte + 4,
                       Fields({<<"left", 1>>}),
                       <<R.node, Leaf("=", R.node.end_byte + 1, "="),
                         Leaf("number", R.node.end_byte + 3, "1")>>),
                  Leaf(";", R.node.end_byte + 4, ";") >>),
          R.text \o " = 1;")

\* import 'fs';
ImportStatement(start, quote, module) ==
    Built(Node("import_statement", start, start + 7 + Len(module) + 3, NoFields,
               << Leaf("import", start, "import"),
                  Node("string", start + 7, start + 7 + Len(module) + 2, NoFields,
                       <<Leaf("string_fragment", start + 8, module)>>),
                  Leaf(";", start + 7 + Len(module) + 2, ";") >>),
          "import " \o quote \o module \o quote \o ";")

RECURSIVE StmtNode(_, _), StmtList(_, _)

\* "{ s1 s2 }", or "{}" when empty: a statement_block or a class_body.
Block(type, start, ss) ==
    IF ss = <<>>
    THEN Enclosed(type, start, "{", BuiltList(<<>>, ""), "}")
    ELSE Enclosed(type, start, "{ ", StmtList(start + 2, ss), " }")

\* { function foo(a) {} ]   a block closed by the wrong bracket: the parser
\* returns an error marker around what it parsed within.
ErrorOf(start, L) == Enclosed("ERROR", start, "{ ", L, " ]")

\* The block that follows the parameters P.
BlockAfter(P, ss) == Block("statement_block", P.node.end_byte + 1, ss)

FunctionDeclarationAt(start, s, P) ==
    FunctionDeclarationOf(start, s.name, P, BlockAfter(P, s.body))

MethodDefinitionAt(start, s, P) ==
    MethodDefinitionOf(start, s.name, P, BlockAfter(P, s.body))

NameEnd(start, name) == IF name # "" THEN start + Len(name) + 1 ELSE start

StmtNode(start, s) ==
    CASE s.kind = "function" ->
           FunctionDeclarationAt(start, s,
               FormalParameters(start + 9 + Len(s.name), s.params))
      [] s.kind = "var" ->
           IF s.value = "none" THEN BareDeclaration(start, s.name)
           ELSE LexicalDeclarationOf(start, s.name, NameEnd(start + 6, s.name),
                    ValueNode(NameEnd(start + 6, s.name) + 2, s))
      [] s.kind = "class" ->
           ClassDeclarationOf(start, s.name,
               Block("class_body", NameEnd(start + 6, s.name), s.body))
      [] s.kind = "method" ->
           MethodDefinitionAt(start, s, FormalParameters(start + Len(s.name), s.params))
      [] s.kind = "call" -> CallStatementOf(start, Reference(start, s.value, s.name))
      [] s.kind = "assign" ->
           AssignmentStatementOf(start, Reference(start, s.value, s.name))
      [] s.kind = "import" -> ImportStatement(start, s.value, s.name)
      [] s.kind = "error" -> ErrorOf(start, StmtList(start + 2, s.body))

\* The statements ss from offset start on, a space between two of them.
StmtListOf(first, rest) ==
    IF rest = <<>> THEN BuiltList(<<first.node>>, first.text)
    ELSE Cons(first.node, <<>>, StmtList(first.node.end_byte + 1, rest),
              first.text \o " ")

StmtList(start, ss) ==
    IF ss = <<>> THEN BuiltList(<<>>, "") ELSE StmtListOf(StmtNode(start, Head(ss)), Tail(ss))

\* The text of a described file and the tree of that text.
Program(L) == Built(Node("program", 0, Len(L.text), NoFields, L.children), L.text)

Parsed(ss) == Program(StmtList(0, ss))

\* --------------------------------------------------------- Python helpers

\* The result of a call: a value, or the exception it raised.
Return(v) == [exc |-> "", val |-> v]
Raise(e) == [exc |-> e, val |-> <<>>]

RECURSIVE lstrip(_, _), rstrip(_, _)
lstrip(s, chars) ==
    IF Len(s) > 0 /\ SubSeq(s, 1, 1) \in chars
    THEN lstrip(SubSeq(s, 2, Len(s)), chars) ELSE s
rstrip(s, chars) ==
    IF Len(s) > 0 /\ SubSeq(s, Len(s), Len(s)) \in chars
    THEN rstrip(SubSeq(s, 1, Len(s) - 1), chars) ELSE s

\* str.strip(chars)
strip(s, chars) == rstrip(lstrip(s, chars), chars)

\* sub in s
contains(s, sub) ==
    \E i \in 1..(Len(s) - Len(sub) + 1) : SubSeq(s, i, i + Len(sub) - 1) = sub

\* s.startswith(prefix)
startswith(s, prefix) == Len(s) >= Len(prefix) /\ SubSeq(s, 1, Len(prefix)) = prefix

RECURSIVE AnyOrder(_)
AnyOrder(S) ==
    IF S = {} THEN <<>>
    ELSE LET x == CHOOSE y \in S : TRUE IN <<x>> \o AnyOrder(S \ {x})

Reverse(q) == [i \in 1..Len(q) |-> q[Len(q) + 1 - i]]

\* The string hash seeds of a Python process: the iteration order of a set
\* of strings follows the seed, not the order of insertion.
HashSeeds == {"seed0", "seed1"}

\* list(a_set)
list_of_set(S, seed) == IF seed = "seed0" THEN AnyOrder(S) ELSE Reverse(AnyOrder(S))

RECURSIVE Flatten(_)
Flatten(qs) == IF qs = <<>> THEN <<>> ELSE Head(qs) \o Flatten(Tail(qs))

Range(q) == {q[i] : i \in 1..Len(q)}

RECURSIVE SelectNodes(_, _)
SelectNodes(q, types) ==
    IF q = <<>> THEN <<>>
    ELSE (IF Head(q).type \in types THEN <<Head(q)>> ELSE <<>>)
         \o SelectNodes(Tail(q), types)

\* ------------------------------------------------------ JavaScriptAnalyzer

\* The nodes in the order every walk() of the analyzer visits them: the node,
\* then each child's subtree in turn.
RECURSIVE PreOrder(_)
PreOrder(n) ==
    <<n>> \o Flatten([i \in 1..Len(n.children) |-> PreOrder(n.children[i])])

\* The specifiers of one import_statement: its string children, unquoted.
import_specifiers(strings, code) ==
    [i \in 1..Len(strings) |-> strip(node_text(code, strings[i]), {"'", "\""})]

imports_of(stmts, code) ==
    Flatten([i \in 1..Len(stmts) |->
                import_specifiers(SelectNodes(stmts[i].children, {"string"}), code)])

extract_imports(root, code) ==
    imports_of(SelectNodes(PreOrder(root), {"import_statement"}), code)

\* The identifier children of a parameters node, in order; [] for None.
identifier_texts(ids, code) == [i \in 1..Len(ids) |-> node_text(code, ids[i])]

identifier_params(params_node, code) ==
    IF params_node = None THEN <<>>
    ELSE identifier_texts(SelectNodes(params_node.children, {"identifier"}), code)

callee_texts(cs, code) ==
    {node_text(code, child_by_field_name(cs[i], "function")) :
        i \in {j \in 1..Len(cs) : child_by_field_name(cs[j], "function") # None}}

\* The callee texts as a list grown by append: one entry per invocation.
callee_list(cs, code) ==
    [i \in 1..Len(cs) |-> node_text(code, child_by_field_name(cs[i], "function"))]

extract_calls_list(node, code, seed) ==
    callee_list(SelectNodes(PreOrder(node), {"call_expression"}), code)

extract_calls(node, code, seed) ==
    list_of_set(callee_texts(SelectNodes(PreOrder(node), {"call_expression"}), code),
                seed)

\* The record extract_functions appends for one function_declaration.
function_record(node, code, imports) ==
    [type |-> "function",
     name |-> IF child_by_field_name(node, "name") # None
              THEN node_text(code, child_by_field_name(node, "name"))
              ELSE "anonymous",
     language |-> "javascript",
     imports |-> imports,
     params |-> identifier_params(child_by_field_name(node, "parameters"), code),
     code |-> node_text(code, child_by_field_name(node, "name"))]

\* node_text(code, None) raises AttributeError and ends the walk.
functions_of(ns, code, imports) ==
    IF \E i \in 1..Len(ns) : child_by_field_name(ns[i], "name") = None
    THEN Raise("AttributeError")
    ELSE Return([i \in 1..Len(ns) |-> function_record(ns[i], code, imports)])

extract_functions(root_node, code) ==
    functions_of(SelectNodes(PreOrder(root_node), {"function_declaration"}), code,
                 extract_imports(root_node, code))

\* The record extract_arrow_functions appends for one variable_declarator.
arrow_record(node, code, imports) ==
    [type |-> "arrow_function",
     name |-> node_text(code, child_by_field_name(node, "name")),
     language |-> "javascript",
     imports |-> imports,
     params |-> identifier_params(
                    child_by_field_name(child_by_field_name(node, "value"),
                                        "parameters"), code),
     code |-> node_text(code, child_by_field_name(node, "name"))]

is_arrow_binding(node) ==
    /\ child_by_field_name(node, "name") # None
    /\ child_by_field_name(node, "value") # None
    /\ child_by_field_name(node, "value").type = "arrow_function"

RECURSIVE arrows_of(_, _, _)
arrows_of(ds, code, imports) ==
    IF ds = <<>> THEN <<>>
    ELSE (IF is_arrow_binding(Head(ds))
          THEN <<arrow_record(Head(ds), code, imports)>> ELSE <<>>)
         \o arrows_of(Tail(ds), code, imports)

extract_arrow_functions(root_node, code) ==
    Return(arrows_of(SelectNodes(PreOrder(root_node), {"variable_declarator"}), code,
                     extract_imports(root_node, code)))

mutated_texts(as, code) ==
    {node_text(code, child_by_field_name(as[i], "left")) :
        i \in {j \in 1..Len(as) :
                 /\ child_by_field_name(as[j], "left") # None
                 /\ child_by_field_name(as[j], "left").type = "member_expression"
                 /\ contains(node_text(code, child_by_field_name(as[j], "left")),
                             "this.")}}

mutates_state(node, code) ==
    mutated_texts(SelectNodes(PreOrder(node), {"assignment_expression"}), code)

\* The record extract_methods appends for one method_definition.
method_record_of(member, code, seed, mutations) ==
    [name |-> node_text(code, child_by_field_name(member, "name")),
     params |-> identifier_params(child_by_field_name(member, "parameters"), code),
     calls |-> extract_calls(member, code, seed),
     mutatesState |-> mutations # {},
     mutations |-> list_of_set(mutations, seed),
     code |-> node_text(code, member)]

method_record(member, code, seed) ==
    method_record_of(member, code, seed, mutates_state(member, code))

methods_of(ms, code, seed) ==
    IF \E i \in 1..Len(ms) : child_by_field_name(ms[i], "name") = None
    THEN Raise("AttributeError")
    ELSE Return([i \in 1..Len(ms) |-> method_record(ms[i], code, seed)])

class_members(bodies) ==
    Flatten([i \in 1..Len(bodies) |->
                SelectNodes(bodies[i].children, {"method_definition"})])

extract_methods(class_node, code, seed) ==
    methods_of(class_members(SelectNodes(class_node.children, {"class_body"})),
               code, seed)

\* The record extract_classes appends for one class_declaration.
class_record_of(n, code, imports, methods) ==
    IF child_by_field_name(n, "name") = None \/ methods.exc # ""
    THEN Raise("AttributeError")
    ELSE Return([type |-> "class",
                 name |-> node_text(code, child_by_field_name(n, "name")),
                 file_path |-> "file path",
                 language |-> "javascript",
                 imports |-> imports,
                 constructor |-> "constructor",
                 methods |-> methods.val,
                 code |-> node_text(code, n)])

class_record(n, code, imports, seed) ==
    class_record_of(n, code, imports, extract_methods(n, code, seed))

class_results(ns, code, imports, seed) ==
    [i \in 1..Len(ns) |-> class_record(ns[i], code, imports, seed)]

classes_of(rs) ==
    IF \E i \in 1..Len(rs) : rs[i].exc # ""
    THEN Raise("AttributeError")
    ELSE Return([i \in 1..Len(rs) |-> rs[i].val])

extract_classes(root_node, code, seed) ==
    classes_of(class_results(SelectNodes(PreOrder(root_node), {"class_declaration"}),
                             code, extract_imports(root_node, code), seed))

export_records(node, code) ==
    (IF node.type = "export_statement"
     THEN <<[type |-> "named_export", code |-> node_text(code, node)]>> ELSE <<>>)
    \o (IF node.type = "export_default_declaration"
        THEN <<[type |-> "default_export", code |-> node_text(code, node)]>> ELSE <<>>)
    \o (IF /\ node.type = "assignment_expression"
           /\ child_by_field_name(node, "left") # None
           /\ \/ startswith(node_text(code, child_by_field_name(node, "left")),
                            "module.exports")
              \/ startswith(node_text(code, child_by_field_name(node, "left")),
                            "exports.")
        THEN <<[type |-> "commonjs_export", code |-> node_text(code, node)]>>
        ELSE <<>>)

exports_of(ns, code) == Flatten([i \in 1..Len(ns) |-> export_records(ns[i], code)])

extract_exports(root, code) == exports_of(PreOrder(root), code)

\* ---------------------------------------------------------------- inputs

P_a == <<Ident("a")>>
P_ab == <<Ident("a"), Ident("b")>>
P_x == <<Ident("x")>>

\* The top-level statements source files are made of.
Units ==
    { Stmt("function", "foo", P_ab, "", <<>>),        \* function foo(a, b) {}
      Stmt("function", "foo", <<Ident("a"), Defaulted("b")>>, "", <<>>),
      Stmt("function", "", P_a, "", <<>>),            \* no name node
      Stmt("function", "bar", <<>>, "",               \* a nested declaration
           <<Stmt("function", "foo", P_a, "", <<>>)>>),
      Stmt("var", "bar", P_x, "arrow", <<>>),         \* const bar = (x) => x + 1;
      Stmt("var", "bar", P_x, "arrow1", <<>>),        \* const bar = x => x + 1;
      Stmt("var", "foo", P_a, "function_expression", <<>>),
      Stmt("var", "bar", <<>>, "number", <<>>),       \* const bar = 1;
      Stmt("var", "", P_x, "arrow", <<>>),            \* no name node
      Stmt("class", "Foo", <<>>, "", <<>>),           \* class Foo {}
      Stmt("class", "Foo", <<>>, "",
           <<Stmt("method", "m", P_a, "",
                  << Stmt("assign", "x", <<>>, "this", <<>>),
                     Stmt("call", "go", <<>>, "", <<>>),
                     Stmt("call", "log", <<>>, "this", <<>>) >>)>>),
      Stmt("import", "fs", <<>>, "'", <<>>) }         \* import 'fs';

SeqsUpTo(S, n) == UNION {[1..m -> S] : m \in 0..n}

\* The described source files: a file alone in the directory has at most
\* MaxRepoSize - 1 top-level statements.
Contents == SeqsUpTo(Units, MaxRepoSize - 1)

\* The statements the body of a method is made of.
MethodStmts ==
    { Stmt("assign", "x", <<>>, "this", <<>>),        \* this.x = 1;
      Stmt("assign", "y", <<>>, "this", <<>>),        \* this.y = 1;
      Stmt("assign", "x", <<>>, "", <<>>),            \* x = 1;
      Stmt("assign", "x", <<>>, "mythis", <<>>),      \* mythis.x = 1;
      Stmt("call", "go", <<>>, "", <<>>),             \* go();
      Stmt("call", "log", <<>>, "this", <<>>) }       \* this.log();

Bodies == SeqsUpTo(MethodStmts, MaxBody)

\* class Foo { m(a) { ... } }
ClassWith(body) ==
    Stmt("class", "Foo", <<>>, "", <<Stmt("method", "m", P_a, "", body)>>)

\* What precedes the class in a file handed to the adaptor.
Preambles ==
    { <<>>,
      <<Stmt("function", "foo", P_ab, "", <<>>)>>,
      <<Stmt("import", "fs", <<>>, "'", <<>>),
        Stmt("function", "foo", P_ab, "", <<>>)>>,
      <<Stmt("import", "fs", <<>>, "'", <<>>),
        Stmt("assign", "exports", <<>>, "module", <<>>),  \* module.exports = 1;
        Stmt("function", "foo", P_ab, "", <<>>),
        Stmt("var", "bar", P_x, "arrow", <<>>)>>,
      <<Stmt("class", "", <<>>, "", <<>>),                \* no name node
        Stmt("function", "foo", P_ab, "", <<>>)>>,
      <<Stmt("error", "", <<>>, "",                       \* { function foo(a) {} ]
             <<Stmt("function", "foo", P_a, "", <<>>)>>)>> }

\* Import statements, and a string literal that is not the operand of one.
ImportStmts ==
    { Stmt("import", "fs", <<>>, "'", <<>>),          \* import 'fs';
      Stmt("import", "fs", <<>>, "\"", <<>>),         \* import "fs";
      Stmt("import", "path", <<>>, "'", <<>>),        \* import 'path';
      Stmt("import", "./a'", <<>>, "\"", <<>>),       \* import "./a'";
      Stmt("var", "bar", <<>>, "string", <<>>) }      \* const bar = 'fs';

ImportInputs == SeqsUpTo(ImportStmts, MaxImports)

\* The described source files a caller hands to the adaptor.
AdaptorInputs ==
    {pre \o <<ClassWith(body)>> : pre \in Preambles, body \in Bodies}
    \cup ImportInputs

Sources == Contents \cup AdaptorInputs

ParsedOf == [ss \in Sources |-> Parsed(ss)]
SourceOf == [ss \in Sources |-> ParsedOf[ss].text]

\* Each described file with its text and tree, and the same by text.
DescribedFiles == {[ss |-> c, text |-> ParsedOf[c].text, node |-> ParsedOf[c].node] : c \in Sources}
ByText == [t \in {f.text : f \in DescribedFiles} |-> CHOOSE f \in DescribedFiles : f.text = t]

\* JavaScriptAnalyzer.parse: the text as bytes and the root of its tree.
parse(code) ==
    [root_node |-> ByText[code].node,
     code |-> code]

\* The dict analyze returns, or the exception of the first extractor to raise.
analysis_of(imports, functions, arrow_functions, classes, exports) ==
    IF functions.exc # "" THEN Raise(functions.exc)
    ELSE IF classes.exc # "" THEN Raise(classes.exc)
    ELSE Return([imports |-> imports,
                 functions |-> functions.val,
                 arrow_functions |-> arrow_functions.val,
                 classes |-> classes.val,
                 exports |-> exports])

analyze_tree(root, code_bytes, seed) ==
    analysis_of(extract_imports(root, code_bytes),
                extract_functions(root, code_bytes),
                extract_arrow_functions(root, code_bytes),
                extract_classes(root, code_bytes, seed),
                extract_exports(root, code_bytes))

analyze_parsed(p, seed) == analyze_tree(p.root_node, p.code, seed)

analyze(code, seed) == analyze_parsed(parse(code), seed)

\* ------------------------------------------------------------------ chunks

\* A digest of the text: equal texts give equal digests, and no two texts of
\* the model collide.
sha256_hexdigest(text) == "sha256:" \o text

\* A hash that takes the time of the call into its digest.
compute_hash_timed(text) == "hash:" \o ToString(clock) \o ":" \o text

compute_hash(text) == sha256_hexdigest(text)

\* The canonical encoding of a chunk's identity: each part with its length.
identity(type, name, language, code) ==
    LET part(t) == ToString(Len(t)) \o ":" \o t IN
    part(type) \o part(name) \o part(language) \o part(code)

\* Chunk(...): the chunk object; its id is the digest of its identity.
Chunk(imports, name, type, language, params, code_, path, metadata) ==
    [id |-> compute_hash(identity(type, name, language, code_)),
     imports |-> imports, name |-> name, type |-> type, language |-> language,
     params |-> params, code |-> code_, path |-> path, metadata |-> metadata,
     \* exports is not among the arguments: it keeps its default
     exports |-> <<>>]

RECURSIVE join(_, _)
join(q, sep) ==
    IF q = <<>> THEN ""
    ELSE IF Len(q) = 1 THEN q[1] ELSE q[1] \o sep \o join(Tail(q), sep)

\* Chunk.to_embedding: the embeddable text, from the stored fields alone.
to_embedding(ch) == ch.name \o "\n" \o ch.code \o "\n" \o join(ch.imports, ",")

\* A dict as a set of <<key, value>> pairs.
NoMetadata == {}

\* ---------------------------------------------------------- JSChunkAdaptor

unit_chunk(r, imports, file_path) ==
    Chunk(imports, r.name, r.type, r.language, r.params, r.code, file_path,
          NoMetadata)

\* The chunk of a class record: its fields are read from fn, the variable
\* the loop over the functions left bound to the last function record.
class_chunk(cls, fn, imports, file_path) ==
    Chunk(imports, fn.name, fn.type, fn.language, fn.params, fn.code, file_path,
          {<<"methods", cls.methods>>})

\* The three loops of normalize over the records of parsed_js.
chunks_of(fns, ars, clss, imports, file_path) ==
    \* fn is unbound when the loop over the functions never ran
    IF clss # <<>> /\ fns = <<>> THEN Raise("UnboundLocalError")
    ELSE Return(
        [j \in 1..Len(fns) |-> unit_chunk(fns[j], imports, file_path)]
        \o [j \in 1..Len(ars) |-> unit_chunk(ars[j], imports, file_path)]
        \o [j \in 1..Len(clss) |->
               class_chunk(clss[j], fns[Len(fns)], imports, file_path)])

normalize_parsed(parsed, file_path) ==
    IF parsed.exc # "" THEN Raise(parsed.exc)
    ELSE chunks_of(parsed.val.functions, parsed.val.arrow_functions,
                   parsed.val.classes, parsed.val.imports, file_path)

normalize(code_, file_path, seed) == normalize_parsed(analyze(code_, seed), file_path)

\* -------------------------------------------------------- ingestion script

SUPORTED_EXT == {".js"}

endswith(s, suffix) ==
    Len(s) >= Len(suffix) /\ SubSeq(s, Len(s) - Len(suffix) + 1, Len(s)) = suffix

\* A file on disk: its path, its bytes, and whether the bytes are UTF-8.
File(path, text, utf8) == [path |-> path, text |-> text, utf8 |-> utf8]

Paths == {"src/auth.service.js", "src/user.service.js", "src/index.js", "src/notes.md"}

RECURSIVE SelectSeq_(_, _)
SelectSeq_(q, keep) ==
    IF q = <<>> THEN <<>>
    ELSE (IF Head(q) \in keep THEN <<Head(q)>> ELSE <<>>) \o SelectSeq_(Tail(q), keep)

read_repos(d) ==
    LET names == [j \in 1..Len(d) |-> d[j].path] IN
    SelectSeq_(names, {n \in Range(names) : \E ext \in SUPORTED_EXT : endswith(n, ext)})

\* read_file: the decoded text, or UnicodeDecodeError.
read_file(d, file_path) ==
    LET f == CHOOSE g \in Range(d) : g.path = file_path IN
    IF f.utf8 THEN Return(f.text) ELSE Raise("UnicodeDecodeError")

\* The directories under REPO_PATH: files of distinct paths, each a described
\* source file or a file whose bytes are not UTF-8, within the size budget.
RECURSIVE ReposWithin(_, _)
ReposWithin(budget, paths) ==
    {<<>>} \cup
    UNION { UNION { { <<File(p, SourceOf[c], TRUE)>> \o r :
                        r \in ReposWithin(budget - 1 - Len(c), paths \ {p}) } :
                    c \in {c \in Contents : Len(c) + 1 <= budget} }
            \cup { <<File(p, "", FALSE)>> \o r :
                     r \in IF budget >= 1 THEN ReposWithin(budget - 1, paths \ {p})
                           ELSE {} } :
            p \in paths }

Repos == ReposWithin(MaxRepoSize, Paths)

\* The path the script gives its adaptor: JSChunkAdaptor("test").
AdaptorPath == "test"

\* The paths of fs the file loop reads.
service_files(fs) == SelectSeq_(fs, {f \in Range(fs) : contains(f, "service.js")})

\* The value of code after the file loop: the text of the last file read.
selected_code(d, hits) ==
    IF hits = <<>> THEN "" ELSE read_file(d, hits[Len(hits)]).val

printed(n) ==
    IF n.exc # "" THEN [exc |-> n.exc, stdout |-> <<>>]
    ELSE [exc |-> "", stdout |-> [j \in 1..Len(n.val) |-> to_embedding(n.val[j])]]

script_run_of(d, hits, seed) ==
    IF \E j \in 1..Len(hits) : read_file(d, hits[j]).exc # ""
    THEN [exc |-> "UnicodeDecodeError", stdout |-> <<>>]
    ELSE printed(normalize(selected_code(d, hits), AdaptorPath, seed))

\* The whole run as a function of the directory and the hash seed: the
\* exception that ends it, if any, and the lines printed.
script_run(d, seed) == script_run_of(d, service_files(read_repos(d)), seed)

ScriptStart ==
    /\ pc = "read_repos" /\ files = <<>> /\ fi = 1 /\ script_code = ""
    /\ parsed_js = None
    /\ chunks = <<>> /\ ci = 1 /\ stdout = <<>> /\ exc = ""

ChunkInit == clock = 0 /\ made = <<>>
EmbedInit == embedPc = "idle" /\ answer = "" /\ attempts = 0 /\ embedLog = <<>>

\* No query made, and the shop's tables empty.
NoRow == <<>>
QueryInit == collection = {} /\ wanted = None /\ results = None
ShopInit ==
    /\ products = NoRow /\ carts = NoRow /\ cart_items = NoRow /\ users = NoRow
    /\ response = None
StoreInit ==
    coupons = NoRow /\ payments = NoRow /\ now = 0 /\ inflight = NoRow
ServiceInit == QueryInit /\ ShopInit /\ StoreInit

Init ==
    /\ disk \in Repos
    /\ hashseed \in HashSeeds
    /\ run = 1 /\ log = <<>>
    /\ ScriptStart
    /\ ChunkInit /\ EmbedInit /\ ServiceInit

\* files = read_repos(REPO_PATH); code = ""
ReadRepos ==
    /\ pc = "read_repos"
    /\ files' = read_repos(disk)
    /\ pc' = "select"
    /\ UNCHANGED <<disk, fi, script_code, parsed_js, chunks, ci, stdout, exc, run,
                   hashseed, log>>
    /\ UNCHANGED <<chunkVars, embedVars, serviceVars>>

\* One turn of: for f in files: if "service.js" in f: code = read_file(f)
SelectFile ==
    /\ pc = "select" /\ fi <= Len(files)
    /\ LET f == files[fi]
           r == read_file(disk, f)
       IN  IF ~contains(f, "service.js")
           THEN /\ fi' = fi + 1
                /\ UNCHANGED <<script_code, pc, exc>>
           ELSE IF r.exc # ""
           THEN /\ pc' = "aborted" /\ exc' = r.exc
                /\ UNCHANGED <<script_code, fi>>
           ELSE /\ script_code' = r.val /\ fi' = fi + 1
                /\ UNCHANGED <<pc, exc>>
    /\ UNCHANGED <<disk, files, parsed_js, chunks, ci, stdout, run, hashseed, log>>
    /\ UNCHANGED <<chunkVars, embedVars, serviceVars>>

\* JS_adaptor = JSChunkAdaptor("test"); chunks = JS_adaptor.normalize(code)
NormalizeResult(n) ==
    IF n.exc # ""
    THEN pc' = "aborted" /\ exc' = n.exc /\ UNCHANGED chunks
    ELSE pc' = "print" /\ chunks' = n.val /\ UNCHANGED exc

NormalizeAnalysed(p) ==
    /\ parsed_js' = p
    /\ NormalizeResult(normalize_parsed(p, AdaptorPath))

Normalize ==
    /\ pc = "select" /\ fi > Len(files)
    /\ NormalizeAnalysed(analyze(script_code, hashseed))
    /\ UNCHANGED <<disk, files, fi, script_code, ci, stdout, run, hashseed, log>>
    /\ UNCHANGED <<chunkVars, embedVars, serviceVars>>

\* One turn of: for ch in chunks: print(ch.to_embedding())
PrintChunk ==
    /\ pc = "print" /\ ci <= Len(chunks)
    /\ stdout' = Append(stdout, to_embedding(chunks[ci]))
    /\ ci' = ci + 1
    /\ UNCHANGED <<disk, pc, files, fi, script_code, parsed_js, chunks, exc, run,
                   hashseed, log>>
    /\ UNCHANGED <<chunkVars, embedVars, serviceVars>>

\* The loop over the chunks is over: the script ends.
Finish ==
    /\ pc = "print" /\ ci > Len(chunks)
    /\ pc' = "done"
    /\ UNCHANGED <<disk, files, fi, script_code, parsed_js, chunks, ci, stdout, exc,
                   run, hashseed, log>>
    /\ UNCHANGED <<chunkVars, embedVars, serviceVars>>

Ended == pc \in {"done", "aborted"}

\* The script is started again, in a new process, on the directory as it is.
Rerun ==
    /\ Ended /\ run < MaxRuns
    /\ log' = Append(log, [exc |-> exc, chunks |-> chunks, stdout |-> stdout])
    /\ run' = run + 1
    /\ hashseed' \in HashSeeds
    /\ pc' = "read_repos" /\ files' = <<>> /\ fi' = 1 /\ script_code' = ""
    /\ parsed_js' = None
    /\ chunks' = <<>> /\ ci' = 1 /\ stdout' = <<>> /\ exc' = ""
    /\ UNCHANGED disk
    /\ UNCHANGED <<chunkVars, embedVars, serviceVars>>

Next ==
    \/ ReadRepos
    \/ SelectFile
    \/ Normalize
    \/ PrintChunk
    \/ Finish
    \/ Rerun

Spec == Init /\ [][Next]_vars

\* ------------------------------------------------ chunks built by a caller
\* A caller constructs Chunk objects one after the other while time passes.

ChunkTypes == {"function", "class"}
ChunkNames == {"foo", "bar"}
ChunkCodes == {"foo", "function foo(a, b) {}"}
ChunkPaths == {"test", "src/user.service.js"}
ChunkImports == {<<>>, <<"fs">>}

ScriptIdle ==
    /\ disk = <<>> /\ hashseed = "seed0" /\ run = 1 /\ log = <<>>
    /\ ScriptStart

InitChunk == ScriptIdle /\ ChunkInit /\ EmbedInit /\ ServiceInit

MakeChunk ==
    /\ Len(made) < MaxMade
    /\ \E imports \in ChunkImports, name \in ChunkNames, type \in ChunkTypes,
          c \in ChunkCodes, path \in ChunkPaths :
          made' = Append(made,
                         [chunk |-> Chunk(imports, name, type, "javascript", <<>>, c,
                                          path, NoMetadata),
                          at |-> clock])
    /\ UNCHANGED clock
    /\ UNCHANGED <<scriptVars, embedVars, serviceVars>>

Tick ==
    /\ clock < MaxClock
    /\ clock' = clock + 1
    /\ UNCHANGED made
    /\ UNCHANGED <<scriptVars, embedVars, serviceVars>>

NextChunk ==
    \/ MakeChunk
    \/ Tick

SpecChunk == InitChunk /\ [][NextChunk]_vars

\* ------------------------------------------------------------ embeddAnswer

Answers == {"", "what does foo do", "where is bar"}

InitEmbed == ScriptIdle /\ ChunkInit /\ EmbedInit /\ ServiceInit

\* embeddAnswer(answer) is entered and asks the provider: embed_query(answer)
EmbedCall ==
    /\ embedPc = "idle" /\ Len(embedLog) < MaxEmbedCalls
    /\ \E a \in Answers : answer' = a
    /\ attempts' = 1
    /\ embedPc' = "calling"
    /\ UNCHANGED embedLog
    /\ UNCHANGED <<scriptVars, chunkVars, serviceVars>>

\* embed_query returns a vector and embeddAnswer returns it
ProviderReturns ==
    /\ embedPc = "calling"
    /\ embedLog' = Append(embedLog, [answer |-> answer, attempts |-> attempts,
                                     outcome |-> "returned"])
    /\ embedPc' = "idle" /\ answer' = "" /\ attempts' = 0
    /\ UNCHANGED <<scriptVars, chunkVars, serviceVars>>

\* embed_query raises and the exception leaves embeddAnswer
ProviderFails ==
    /\ embedPc = "calling"
    /\ embedLog' = Append(embedLog, [answer |-> answer, attempts |-> attempts,
                                     outcome |-> "raised"])
    /\ embedPc' = "idle" /\ answer' = "" /\ attempts' = 0
    /\ UNCHANGED <<scriptVars, chunkVars, serviceVars>>

NextEmbed ==
    \/ EmbedCall
    \/ ProviderReturns
    \/ ProviderFails

SpecEmbed == InitEmbed /\ [][NextEmbed]_vars

\* ------------------------------------------- the adaptor called on a file
\* A caller hands the text of a file to JSChunkAdaptor("test").normalize, and
\* again in a new process.

InitAdaptor ==
    /\ disk = <<>> /\ files = <<>> /\ fi = 1
    /\ script_code \in {SourceOf[c] : c \in AdaptorInputs}
    /\ hashseed \in HashSeeds
    /\ pc = "select" /\ parsed_js = None
    /\ chunks = <<>> /\ ci = 1 /\ stdout = <<>> /\ exc = ""
    /\ run = 1 /\ log = <<>>
    /\ ChunkInit /\ EmbedInit /\ ServiceInit

\* normalize has returned or raised; it is called on the same text again.
NormalizeAgain ==
    /\ pc \in {"print", "aborted"} /\ run < MaxRuns
    /\ log' = Append(log, [exc |-> exc, chunks |-> chunks, parsed_js |-> parsed_js])
    /\ run' = run + 1
    /\ hashseed' \in HashSeeds
    /\ pc' = "select" /\ parsed_js' = None
    /\ chunks' = <<>> /\ exc' = ""
    /\ UNCHANGED <<disk, files, fi, script_code, ci, stdout>>
    /\ UNCHANGED <<chunkVars, embedVars, serviceVars>>

NextAdaptor ==
    \/ Normalize
    \/ NormalizeAgain

SpecAdaptor == InitAdaptor /\ [][NextAdaptor]_vars

\* --------------------------------------------------------- query_chroma_db

Queries == {"authentication", "cart"}
DocIds == 1..MaxDocs

\* The similarity of a document to a query, as the embedding model and the
\* index score it.
Similarity(query, d) == (d * Len(query)) % 3

Min(a, b) == IF a <= b THEN a ELSE b

\* The documents of the collection, the most similar first.
RECURSIVE Ranked(_, _)
Ranked(docs, query) ==
    IF docs = {} THEN <<>>
    ELSE LET best == CHOOSE d \in docs :
                        \A e \in docs : Similarity(query, d) >= Similarity(query, e)
         IN  <<best>> \o Ranked(docs \ {best}, query)

\* The number of results similarity_search returns when no k is passed.
DEFAULT_K == 4

\* vector_store.similarity_search(query, k): the k most similar documents.
similarity_search(docs, query, k) ==
    SubSeq(Ranked(docs, query), 1, Min(k, Cardinality(docs)))

query_chroma_db(docs, query) == [docs |-> similarity_search(docs, query, DEFAULT_K)]

InitQuery ==
    /\ ScriptIdle /\ ChunkInit /\ EmbedInit /\ ShopInit /\ StoreInit
    /\ collection \in SUBSET DocIds
    /\ wanted = None /\ results = None

\* A caller that wants the k best matches of a query calls query_chroma_db.
QueryChromaDb ==
    /\ \E q \in Queries, k \in 1..MaxDocs :
          /\ wanted' = [query |-> q, k |-> k]
          /\ results' = query_chroma_db(collection, q)
    /\ UNCHANGED collection
    /\ UNCHANGED <<scriptVars, chunkVars, embedVars, shopVars, storeVars>>

NextQuery == QueryChromaDb

SpecQuery == InitQuery /\ [][NextQuery]_vars

\* ------------------------------------------------------------- CartService
\* A table is a sequence of rows, a row's id its index; a deleted row
\* leaves None behind.

UserIds == {1, 2}
ProductIds == {1, 2}
Quantities == 1..MaxStock

Product(is_active, stock) == [is_active |-> is_active, stock |-> stock]

\* repository.get_by_id(id): the row, or None
get_by_id(table, id) == IF id \in 1..Len(table) THEN table[id] ELSE None

\* CartRepository.get_by_user_id(user_id): the user's cart with its id, or None
cart_of(cs, user_id) ==
    IF \E c \in 1..Len(cs) : cs[c].user_id = user_id
    THEN [id |-> CHOOSE c \in 1..Len(cs) : cs[c].user_id = user_id,
          user_id |-> user_id]
    ELSE None

\* CartRepository.get_or_create(user_id): the table after the call
get_or_create(cs, user_id) ==
    IF cart_of(cs, user_id) # None THEN cs ELSE Append(cs, [user_id |-> user_id])

\* The id of the row of product_id in the cart, 0 if there is none.
item_of(items, cart_id, product_id) ==
    IF \E i \in 1..Len(items) :
          items[i] # None /\ items[i].cart_id = cart_id
          /\ items[i].product_id = product_id
    THEN CHOOSE i \in 1..Len(items) :
          items[i] # None /\ items[i].cart_id = cart_id
          /\ items[i].product_id = product_id
    ELSE 0

\* CartItemRepository.add_item: a new row, or the quantity added to the row
\* the cart already has for the product.
add_item_at(items, i, cart_id, product_id, quantity) ==
    IF i = 0
    THEN Append(items, [cart_id |-> cart_id, product_id |-> product_id,
                        quantity |-> quantity])
    ELSE [items EXCEPT ![i].quantity = @ + quantity]

add_item(items, cart_id, product_id, quantity) ==
    add_item_at(items, item_of(items, cart_id, product_id), cart_id, product_id,
                quantity)

\* CartItemRepository.update_quantity and remove_item
update_quantity(items, item_id, quantity) ==
    [items EXCEPT ![item_id].quantity = quantity]

remove_item(items, item_id) == [items EXCEPT ![item_id] = None]

\* The outcome of a service call: the call, and its HTTP status (200 when
\* it returned).
Response(op, user_id, id, quantity, status_code) ==
    [op |-> op, user_id |-> user_id, id |-> id, quantity |-> quantity,
     status_code |-> status_code]

\* add_to_cart's checks on the product, in the code's order: the status of
\* the HTTPException raised, 200 if none is.
add_to_cart_unchecked(product, quantity) ==
    IF product = None THEN 404
    ELSE IF ~product.is_active THEN 400
    ELSE 200

add_to_cart_status(product, quantity) ==
    IF product = None THEN 404
    ELSE IF ~product.is_active THEN 400
    ELSE IF product.stock < quantity THEN 400
    ELSE 200

\* The ownership test of update_cart_item and remove_from_cart.
owns_any(cart, cart_item) == cart # None

owns(cart, cart_item) == cart # None /\ cart_item.cart_id = cart.id

\* update_cart_item's checks, in the code's order.
update_cart_item_status(cart_item, cart, ps, quantity) ==
    IF cart_item = None THEN 404
    ELSE IF ~owns(cart, cart_item) THEN 403
    ELSE IF get_by_id(ps, cart_item.product_id).stock < quantity THEN 400
    ELSE 200

\* remove_from_cart's checks, in the code's order.
remove_from_cart_status(cart_item, cart) ==
    IF cart_item = None THEN 404
    ELSE IF ~owns(cart, cart_item) THEN 403
    ELSE 200

\* The quantity the cart of user_id holds of product_id, 0 if none.
quantity_at(items, i) == IF i = 0 THEN 0 ELSE items[i].quantity

quantity_in_cart(cs, items, user_id, product_id) ==
    IF cart_of(cs, user_id) = None THEN 0
    ELSE quantity_at(items, item_of(items, cart_of(cs, user_id).id, product_id))

\* The tables have room for what a successful add_to_cart writes.
Fits(user_id, product_id, quantity) ==
    /\ quantity_in_cart(carts, cart_items, user_id, product_id) + quantity
          <= MaxQuantity
    /\ \/ quantity_in_cart(carts, cart_items, user_id, product_id) > 0
       \/ Len(cart_items) < MaxItems

AddToCartOk(user_id, product_id, quantity) ==
    /\ Fits(user_id, product_id, quantity)
    /\ carts' = get_or_create(carts, user_id)
    /\ cart_items' = add_item(cart_items, cart_of(carts', user_id).id,
                              product_id, quantity)

AddToCartStatus(user_id, product_id, quantity, status_code) ==
    /\ IF status_code = 200
       THEN AddToCartOk(user_id, product_id, quantity)
       ELSE UNCHANGED <<carts, cart_items>>
    /\ response' = Response("add_to_cart", user_id, product_id, quantity,
                            status_code)

AddToCart ==
    /\ \E user_id \in UserIds, product_id \in ProductIds, quantity \in Quantities :
          AddToCartStatus(user_id, product_id, quantity,
                          add_to_cart_status(get_by_id(products, product_id),
                                             quantity))
    /\ UNCHANGED <<products, users>>
    /\ UNCHANGED <<scriptVars, chunkVars, embedVars, queryVars, storeVars>>

UpdateCartItemStatus(user_id, item_id, quantity, status_code) ==
    /\ cart_items' = IF status_code = 200
                     THEN update_quantity(cart_items, item_id, quantity)
                     ELSE cart_items
    /\ response' = Response("update_cart_item", user_id, item_id, quantity,
                            status_code)

UpdateCartItem ==
    /\ \E user_id \in UserIds, item_id \in 1..MaxItems + 1,
          quantity \in Quantities :
          UpdateCartItemStatus(user_id, item_id, quantity,
              update_cart_item_status(get_by_id(cart_items, item_id),
                                      cart_of(carts, user_id), products,
                                      quantity))
    /\ UNCHANGED <<products, carts, users>>
    /\ UNCHANGED <<scriptVars, chunkVars, embedVars, queryVars, storeVars>>

RemoveFromCartStatus(user_id, item_id, status_code) ==
    /\ cart_items' = IF status_code = 200
                     THEN remove_item(cart_items, item_id)
                     ELSE cart_items
    /\ response' = Response("remove_from_cart", user_id, item_id, 0,
                            status_code)

RemoveFromCart ==
    /\ \E user_id \in UserIds, item_id \in 1..MaxItems + 1 :
          RemoveFromCartStatus(user_id, item_id,
              remove_from_cart_status(get_by_id(cart_items, item_id),
                                      cart_of(carts, user_id)))
    /\ UNCHANGED <<products, carts, users>>
    /\ UNCHANGED <<scriptVars, chunkVars, embedVars, queryVars, storeVars>>

\* The catalogue the service starts on: product 1 in any condition, product
\* 2 absent or on sale.
Catalogues ==
    { <<p>> : p \in { Product(a, st) : a \in BOOLEAN, st \in 0..MaxStock } }
    \cup { <<p, Product(TRUE, MaxStock)>> :
             p \in { Product(a, st) : a \in BOOLEAN, st \in 0..MaxStock } }

InitCart ==
    /\ ScriptIdle
    /\ ChunkInit
    /\ EmbedInit
    /\ QueryInit
    /\ StoreInit
    /\ products \in Catalogues
    /\ carts = <<>>
    /\ cart_items = <<>>
    /\ users = NoRow
    /\ response = None

NextCart == AddToCart \/ UpdateCartItem \/ RemoveFromCart

SpecCart == InitCart /\ [][NextCart]_vars

\* ------------------------------------------------- CartService.validate_cart
\* The errors validate_cart appends for one item: the product is looked up,
\* a missing product gives one error and ends the item (continue), an
\* inactive product and a stock below the quantity give one error each.
item_errors_stock_only(product, item) ==
    IF product = None THEN << <<"non trouve", item.product_id>> >>
    ELSE IF product.stock < item.quantity
         THEN << <<"stock insuffisant", item.product_id>> >>
         ELSE <<>>

item_errors(product, item) ==
    IF product = None THEN << <<"non trouve", item.product_id>> >>
    ELSE (IF ~product.is_active
          THEN << <<"plus disponible", item.product_id>> >> ELSE <<>>)
         \o (IF product.stock < item.quantity
             THEN << <<"stock insuffisant", item.product_id>> >> ELSE <<>>)

\* Cart.items: the ids of the rows of the cart, in id order.
RECURSIVE cart_item_ids(_, _, _)
cart_item_ids(items, cart_id, i) ==
    IF i > Len(items) THEN <<>>
    ELSE (IF items[i] # None /\ items[i].cart_id = cart_id THEN <<i>> ELSE <<>>)
         \o cart_item_ids(items, cart_id, i + 1)

\* The loop of validate_cart over cart.items, from the k-th on.
RECURSIVE validate_items(_, _, _, _)
validate_items(ps, items, ids, k) ==
    IF k > Len(ids) THEN [errors |-> <<>>, lookups |-> <<>>]
    ELSE [errors |-> item_errors(get_by_id(ps, items[ids[k]].product_id),
                                 items[ids[k]])
                     \o validate_items(ps, items, ids, k + 1).errors,
          lookups |-> <<items[ids[k]].product_id>>
                      \o validate_items(ps, items, ids, k + 1).lookups]

Validation(user_id, status_code, is_valid, errors, lookups) ==
    [op |-> "validate_cart", user_id |-> user_id, status_code |-> status_code,
     is_valid |-> is_valid, errors |-> errors, lookups |-> lookups]

validated(user_id, checked) ==
    Validation(user_id, 200, Len(checked.errors) = 0, checked.errors,
               checked.lookups)

validate_cart_of(ps, items, user_id, ids) ==
    IF Len(ids) = 0
    THEN Validation(user_id, 200, FALSE, <<"Le panier est vide">>, <<>>)
    ELSE validated(user_id, validate_items(ps, items, ids, 1))

\* validate_cart: get_cart raises 404 for a user without cart.
validate_cart(cs, items, ps, user_id) ==
    IF cart_of(cs, user_id) = None
    THEN Validation(user_id, 404, FALSE, <<>>, <<>>)
    ELSE validate_cart_of(ps, items, user_id,
                          cart_item_ids(items, cart_of(cs, user_id).id, 1))

ValidateCart ==
    /\ \E user_id \in UserIds :
          response' = validate_cart(carts, cart_items, products, user_id)
    /\ UNCHANGED <<products, carts, cart_items, users>>
    /\ UNCHANGED <<scriptVars, chunkVars, embedVars, queryVars, storeVars>>

\* The tables validate_cart may find: products sold out, withdrawn or deleted
\* since they were put in a cart.
ProductRows ==
    {None} \cup { Product(a, st) : a \in BOOLEAN, st \in 0..MaxStock }

CartTables ==
    { <<>>, <<[user_id |-> 1]>>, <<[user_id |-> 1], [user_id |-> 2]>> }

ItemRows(cs) ==
    [cart_id : 1..Len(cs), product_id : ProductIds, quantity : Quantities]

ItemTables(cs) ==
    { t \in SeqsUpTo(ItemRows(cs), MaxItems) :
        \A i, j \in 1..Len(t) :
            (t[i].cart_id = t[j].cart_id /\ t[i].product_id = t[j].product_id)
                => i = j }

InitValidate ==
    /\ ScriptIdle
    /\ ChunkInit
    /\ EmbedInit
    /\ QueryInit
    /\ StoreInit
    /\ products \in { <<p, q>> : p \in ProductRows, q \in ProductRows }
    /\ carts \in CartTables
    /\ cart_items \in ItemTables(carts)
    /\ users = NoRow
    /\ response = None

NextValidate == ValidateCart

SpecValidate == InitValidate /\ [][NextValidate]_vars

\* ------------------------------------------------------------- AuthService
\* The users table is a sequence of rows, a user's id its index.

Emails == {"a@shop", "b@shop", "c@shop"}
Passwords == {"pw1", "pw2"}

\* app.core.security: the stored hash is not the password, and a password
\* verifies against the hash made of it and no other.
hash_password(password) == <<"bcrypt", password>>
verify_password(password, password_hash) ==
    password_hash = hash_password(password)

create_access_token(data) == [type |-> "access", data |-> data]
create_refresh_token(data) == [type |-> "refresh", data |-> data]

User(email, password_hash, is_active) ==
    [email |-> email, password_hash |-> password_hash, is_active |-> is_active,
     role |-> "customer"]

\* A user row with its id.
WithId(row, id) ==
    [id |-> id, email |-> row.email, password_hash |-> row.password_hash,
     is_active |-> row.is_active, role |-> row.role]

\* UserRepository.get_by_email(email): the user, or None
get_by_email(us, email) ==
    IF \E i \in 1..Len(us) : us[i].email = email
    THEN WithId(us[CHOOSE i \in 1..Len(us) : us[i].email = email],
                CHOOSE i \in 1..Len(us) : us[i].email = email)
    ELSE None

\* The outcome of login: an HTTPException, or the LoginResponse.
LoginException(email, password, status_code, detail) ==
    [op |-> "login", email |-> email, password |-> password,
     status_code |-> status_code, detail |-> detail,
     access_token |-> None, refresh_token |-> None, token_type |-> ""]

LoginResponse(email, password, user) ==
    [op |-> "login", email |-> email, password |-> password,
     status_code |-> 200, detail |-> "",
     access_token |-> create_access_token(
         [sub |-> user.id, email |-> user.email, role |-> user.role]),
     refresh_token |-> create_refresh_token([sub |-> user.id]),
     token_type |-> "bearer"]

login_active_first(user, email, password) ==
    IF user = None
    THEN LoginException(email, password, 401, "Email ou mot de passe incorrect")
    ELSE IF ~user.is_active
    THEN LoginException(email, password, 403,
                        "Compte désactivé. Contactez l'administrateur")
    ELSE IF ~verify_password(password, user.password_hash)
    THEN LoginException(email, password, 401, "Email ou mot de passe incorrect")
    ELSE LoginResponse(email, password, user)

login(user, email, password) ==
    IF user = None
    THEN LoginException(email, password, 401, "Email ou mot de passe incorrect")
    ELSE IF ~verify_password(password, user.password_hash)
    THEN LoginException(email, password, 401, "Email ou mot de passe incorrect")
    ELSE IF ~user.is_active
    THEN LoginException(email, password, 403,
                        "Compte désactivé. Contactez l'administrateur")
    ELSE LoginResponse(email, password, user)

Login ==
    /\ \E email \in Emails, password \in Passwords :
          response' = login(get_by_email(users, email), email, password)
    /\ UNCHANGED <<products, carts, cart_items, users>>
    /\ UNCHANGED <<scriptVars, chunkVars, embedVars, queryVars, storeVars>>

\* The accounts the service starts on: up to two of them, of different
\* emails; c@shop never has one.
Accounts ==
    { User(e, hash_password(p), a) :
        e \in {"a@shop", "b@shop"}, p \in Passwords, a \in BOOLEAN }

UserTables ==
    { <<>> } \cup { <<u>> : u \in Accounts }
    \cup { <<u, v>> : u \in Accounts,
                     v \in { w \in Accounts : w.email = "b@shop" } }

InitAuth ==
    /\ ScriptIdle
    /\ ChunkInit
    /\ EmbedInit
    /\ QueryInit
    /\ StoreInit
    /\ products = NoRow
    /\ carts = NoRow
    /\ cart_items = NoRow
    /\ users \in { us \in UserTables :
                     \A i, j \in 1..Len(us) : us[i].email = us[j].email => i = j }
    /\ response = None

NextAuth == Login

SpecAuth == InitAuth /\ [][NextAuth]_vars

\* -------------------------------------------------------- CouponRepository
\* A nullable column holds <<>> for NULL and <<v>> for the value v.

Coupon(code, is_active, expires_at) ==
    [code |-> code, is_active |-> is_active, expires_at |-> expires_at]

\* str.upper() on the codes of the model
upper(code) ==
    CASE code = "save10" -> "SAVE10"
      [] code = "free" -> "FREE"
      [] OTHER -> code

\* The ids of the rows a query selects.
RowsWhere(table, P(_)) == { i \in 1..Len(table) : P(table[i]) }

\* get_by_code: the row whose code is code.upper(), with its id, or None
get_by_code(cs, code) ==
    IF RowsWhere(cs, LAMBDA c : c.code = upper(code)) = {} THEN None
    ELSE [id |-> CHOOSE i \in RowsWhere(cs, LAMBDA c : c.code = upper(code)) : TRUE]

\* The WHERE clause of get_valid_coupons and count_valid.
valid_where(c, t) ==
    c.is_active /\ (c.expires_at = <<>> \/ c.expires_at[1] > t)

\* The WHERE clause of get_expired_coupons.
expired_where(c, t) == c.expires_at # <<>> /\ c.expires_at[1] < t

get_valid_coupons(cs, t) == RowsWhere(cs, LAMBDA c : valid_where(c, t))
get_expired_coupons(cs, t) == RowsWhere(cs, LAMBDA c : expired_where(c, t))
count_valid(cs, t) == Cardinality(RowsWhere(cs, LAMBDA c : valid_where(c, t)))

\* is_valid and validate_code, on the row found (None if none): the three
\* tests in the code's order.
is_valid_row(coupon, t) ==
    IF coupon = None THEN FALSE
    ELSE IF ~coupon.is_active THEN FALSE
    ELSE IF coupon.expires_at # <<>> /\ coupon.expires_at[1] < t THEN FALSE
    ELSE TRUE

is_valid(cs, coupon_id, t) == is_valid_row(get_by_id(cs, coupon_id), t)

validate_code_row(found, coupon, t) ==
    IF found = None
    THEN [is_valid |-> FALSE, coupon |-> 0, error |-> "Code promo invalide"]
    ELSE IF ~coupon.is_active
    THEN [is_valid |-> FALSE, coupon |-> found.id,
          error |-> "Ce code promo n'est plus actif"]
    ELSE IF coupon.expires_at # <<>> /\ coupon.expires_at[1] < t
    THEN [is_valid |-> FALSE, coupon |-> found.id,
          error |-> "Ce code promo a expire"]
    ELSE [is_valid |-> TRUE, coupon |-> found.id, error |-> ""]

validate_code_found(cs, found, t) ==
    validate_code_row(found, IF found = None THEN None ELSE cs[found.id], t)

validate_code(cs, code, t) == validate_code_found(cs, get_by_code(cs, code), t)

Returned(op, arg, result) == [op |-> op, arg |-> arg, result |-> result]

CouponFrame ==
    /\ UNCHANGED <<products, carts, cart_items, users>>
    /\ UNCHANGED storeVars
    /\ UNCHANGED <<scriptVars, chunkVars, embedVars, queryVars>>

IsValid ==
    /\ \E coupon_id \in 1..MaxCoupons + 1 :
          response' = Returned("is_valid", coupon_id, is_valid(coupons, coupon_id, now))
    /\ CouponFrame

ValidateCode ==
    /\ \E code \in {"SAVE10", "save10", "FREE", "NOPE"} :
          response' = Returned("validate_code", code, validate_code(coupons, code, now))
    /\ CouponFrame

GetValidCoupons ==
    /\ response' = Returned("get_valid_coupons", 0, get_valid_coupons(coupons, now))
    /\ CouponFrame

GetExpiredCoupons ==
    /\ response' = Returned("get_expired_coupons", 0, get_expired_coupons(coupons, now))
    /\ CouponFrame

CountValid ==
    /\ response' = Returned("count_valid", 0, count_valid(coupons, now))
    /\ CouponFrame

\* The coupons the table may hold: codes are stored in upper case, one row
\* per code.
CouponRows ==
    { Coupon(code, a, e) :
        code \in {"SAVE10", "FREE"}, a \in BOOLEAN,
        e \in {<<>>} \cup { <<t>> : t \in 0..MaxTime } }

CouponTables ==
    { t \in SeqsUpTo(CouponRows, MaxCoupons) :
        \A i, j \in 1..Len(t) : t[i].code = t[j].code => i = j }

InitCoupon ==
    /\ ScriptIdle
    /\ ChunkInit
    /\ EmbedInit
    /\ QueryInit
    /\ ShopInit
    /\ coupons \in CouponTables
    /\ payments = NoRow
    /\ now \in 0..MaxTime
    /\ inflight = NoRow

NextCoupon ==
    IsValid \/ ValidateCode \/ GetValidCoupons \/ GetExpiredCoupons \/ CountValid

SpecCoupon == InitCoupon /\ [][NextCoupon]_vars

\* ---------------------------------------------------- AuthService.register
\* A call runs up to its next await in one step; between two steps of a
\* call, steps of other calls may take place.

Roles == {"customer", "admin"}

\* The calls in progress once the i-th has ended.
Without(q, i) == SubSeq(q, 1, i - 1) \o SubSeq(q, i + 1, Len(q))

\* UserRepository.email_exists(email)
email_exists(us, email) == \E i \in 1..Len(us) : us[i].email = email

\* The row register hands to user_repo.create: the request's data without
\* the password, with the hash, and with the role set to CUSTOMER.
user_dict(user_data) ==
    [User(user_data.email, hash_password(user_data.password), TRUE)
        EXCEPT !.role = "customer"]

\* UserRepository.create(user_dict): the table with the row inserted
create(us, row) == Append(us, row)

Registration(user_data, status_code) ==
    [op |-> "register", email |-> user_data.email, role |-> user_data.role,
     status_code |-> status_code]

\* register up to the answer of email_exists: 400, or on to create.
RegisterCheck(user_data) ==
    IF email_exists(users, user_data.email)
    THEN /\ response' = Registration(user_data, 400)
         /\ UNCHANGED inflight
    ELSE /\ Len(users) + Len(inflight) < MaxUsers
         /\ Len(inflight) < MaxInflight
         /\ inflight' = Append(inflight, user_data)
         /\ UNCHANGED response

RegisterBegin ==
    /\ \E email \in {"a@shop", "b@shop"}, role \in Roles :
          RegisterCheck([email |-> email, password |-> "pw1", role |-> role])
    /\ UNCHANGED <<products, carts, cart_items, users, coupons, payments, now>>
    /\ UNCHANGED <<scriptVars, chunkVars, embedVars, queryVars>>

\* register from hash_password to the return, for the i-th call in progress.
RegisterCreate ==
    /\ \E i \in 1..Len(inflight) :
          /\ users' = create(users, user_dict(inflight[i]))
          /\ response' = Registration(inflight[i], 200)
          /\ inflight' = Without(inflight, i)
    /\ UNCHANGED <<products, carts, cart_items, coupons, payments, now>>
    /\ UNCHANGED <<scriptVars, chunkVars, embedVars, queryVars>>

InitRegister ==
    /\ ScriptIdle
    /\ ChunkInit
    /\ EmbedInit
    /\ ServiceInit

NextRegister == RegisterBegin \/ RegisterCreate

SpecRegister == InitRegister /\ [][NextRegister]_vars

\* ----------------------------------------------------------- ProductService
\* decrease_stock and increase_stock, each in two steps: up to the await of
\* the repository's update, and the update.

\* ProductRepository.decrease_stock / increase_stock: the stock column of
\* the row moved by the quantity
decrease_stock(ps, product_id, quantity) ==
    [ps EXCEPT ![product_id].stock = @ - quantity]
increase_stock(ps, product_id, quantity) ==
    [ps EXCEPT ![product_id].stock = @ + quantity]

StockCall(op, product_id, quantity) ==
    [op |-> op, product_id |-> product_id, quantity |-> quantity]

StockAnswer(call, status_code) ==
    [op |-> call.op, product_id |-> call.product_id,
     quantity |-> call.quantity, status_code |-> status_code]

\* The status get_product_by_id and the stock test let the call go on with.
decrease_stock_status(product, quantity) ==
    IF product = None THEN 404
    ELSE IF product.stock < quantity THEN 400
    ELSE 200

increase_stock_status(product) == IF product = None THEN 404 ELSE 200

StockBegin(call, status_code) ==
    IF status_code = 200
    THEN /\ Len(inflight) < MaxInflight
         /\ inflight' = Append(inflight, call)
         /\ UNCHANGED response
    ELSE /\ response' = StockAnswer(call, status_code)
         /\ UNCHANGED inflight

StockFrame ==
    /\ UNCHANGED <<carts, cart_items, users, coupons, payments, now>>
    /\ UNCHANGED <<scriptVars, chunkVars, embedVars, queryVars>>

DecreaseStockBegin ==
    /\ \E product_id \in ProductIds, quantity \in Quantities :
          StockBegin(StockCall("decrease_stock", product_id, quantity),
                     decrease_stock_status(get_by_id(products, product_id),
                                           quantity))
    /\ UNCHANGED products
    /\ StockFrame

IncreaseStockBegin ==
    /\ \E product_id \in ProductIds, quantity \in Quantities :
          /\ get_by_id(products, product_id) # None =>
                get_by_id(products, product_id).stock + quantity <= MaxStock
          /\ StockBegin(StockCall("increase_stock", product_id, quantity),
                        increase_stock_status(get_by_id(products, product_id)))
    /\ UNCHANGED products
    /\ StockFrame

DecreaseStockUpdate ==
    /\ \E i \in 1..Len(inflight) :
          /\ inflight[i].op = "decrease_stock"
          /\ products' = decrease_stock(products, inflight[i].product_id,
                                        inflight[i].quantity)
          /\ response' = StockAnswer(inflight[i], 200)
          /\ inflight' = Without(inflight, i)
    /\ StockFrame

IncreaseStockUpdate ==
    /\ \E i \in 1..Len(inflight) :
          /\ inflight[i].op = "increase_stock"
          /\ products' = increase_stock(products, inflight[i].product_id,
                                        inflight[i].quantity)
          /\ response' = StockAnswer(inflight[i], 200)
          /\ inflight' = Without(inflight, i)
    /\ StockFrame

\* Product 1 with any stock from zero up; product 2 does not exist.
InitStock ==
    /\ ScriptIdle
    /\ ChunkInit
    /\ EmbedInit
    /\ QueryInit
    /\ StoreInit
    /\ products \in { <<Product(TRUE, st)>> : st \in 0..MaxStock }
    /\ carts = NoRow
    /\ cart_items = NoRow
    /\ users = NoRow
    /\ response = None

NextStock ==
    \/ DecreaseStockBegin
    \/ DecreaseStockUpdate
    \/ IncreaseStockBegin
    \/ IncreaseStockUpdate

SpecStock == InitStock /\ [][NextStock]_vars

\* ------------------------------------------------------- PaymentRepository

PaymentStatus == {"PENDING", "SUCCESS", "FAILED", "REFUNDED"}

\* An optional value: <<>> for None (or a key that is not in the dict).
Optional(S) == {<<>>} \cup { <<v>> : v \in S }

Payment(status, paid_at, transaction_reference) ==
    [status |-> status, paid_at |-> paid_at,
     transaction_reference |-> transaction_reference]

\* BaseRepository.update(id, data): the columns named in data are written,
\* the others kept; no row, no change.
update(table, id, data) ==
    IF id \notin 1..Len(table) THEN table
    ELSE [table EXCEPT ![id] =
            Payment(data.status,
                    IF data.paid_at # <<>> THEN data.paid_at ELSE @.paid_at,
                    IF data.transaction_reference # <<>>
                    THEN data.transaction_reference
                    ELSE @.transaction_reference)]

\* update_data as update_status builds it.
update_status_data_always(status, paid_at, t) ==
    Payment(status, IF paid_at # <<>> THEN paid_at ELSE <<t>>, <<>>)

update_status_data(status, paid_at, t) ==
    Payment(status,
            IF paid_at # <<>> THEN paid_at
            ELSE IF status = "SUCCESS" /\ paid_at = <<>> THEN <<t>>
            ELSE <<>>,
            <<>>)

update_status(table, payment_id, status, paid_at, t) ==
    update(table, payment_id, update_status_data(status, paid_at, t))

mark_as_success(table, payment_id, transaction_reference, t) ==
    update(table, payment_id, Payment("SUCCESS", <<t>>, transaction_reference))

mark_as_failed(table, payment_id, t) ==
    update_status(table, payment_id, "FAILED", <<>>, t)

mark_as_refunded(table, payment_id, t) ==
    update_status(table, payment_id, "REFUNDED", <<>>, t)

PaymentCall(op, payment_id, status, paid_at) ==
    [op |-> op, payment_id |-> payment_id, status |-> status, paid_at |-> paid_at]

PaymentFrame ==
    /\ UNCHANGED <<products, carts, cart_items, users, coupons, now, inflight>>
    /\ UNCHANGED <<scriptVars, chunkVars, embedVars, queryVars>>

UpdateStatus ==
    /\ \E payment_id \in 1..MaxPayments + 1, status \in PaymentStatus,
          paid_at \in Optional(0..MaxTime) :
          /\ payments' = update_status(payments, payment_id, status, paid_at, now)
          /\ response' = PaymentCall("update_status", payment_id, status, paid_at)
    /\ PaymentFrame

MarkAsSuccess ==
    /\ \E payment_id \in 1..MaxPayments + 1, ref \in Optional({"tx2"}) :
          /\ payments' = mark_as_success(payments, payment_id, ref, now)
          /\ response' = PaymentCall("mark_as_success", payment_id, "SUCCESS", ref)
    /\ PaymentFrame

MarkAsFailed ==
    /\ \E payment_id \in 1..MaxPayments + 1 :
          /\ payments' = mark_as_failed(payments, payment_id, now)
          /\ response' = PaymentCall("mark_as_failed", payment_id, "FAILED", <<>>)
    /\ PaymentFrame

MarkAsRefunded ==
    /\ \E payment_id \in 1..MaxPayments + 1 :
          /\ payments' = mark_as_refunded(payments, payment_id, now)
          /\ response' = PaymentCall("mark_as_refunded", payment_id, "REFUNDED", <<>>)
    /\ PaymentFrame

\* The payments the table may hold, and the time of the calls.
PaymentRows ==
    { Payment(st, p, r) :
        st \in PaymentStatus, p \in Optional(0..MaxTime), r \in Optional({"tx1"}) }

InitPayment ==
    /\ ScriptIdle
    /\ ChunkInit
    /\ EmbedInit
    /\ QueryInit
    /\ ShopInit
    /\ coupons = NoRow
    /\ payments \in SeqsUpTo(PaymentRows, MaxPayments)
    /\ now \in 0..MaxTime
    /\ inflight = NoRow

NextPayment == UpdateStatus \/ MarkAsSuccess \/ MarkAsFailed \/ MarkAsRefunded

SpecPayment == InitPayment /\ [][NextPayment]_vars

\* ============================================================== properties

\* The description of the file the script holds in its variable code.
TheFile == ByText[script_code].ss

\* The statements of the given kinds among ss and the bodies within, in
\* source order.
RECURSIVE StatementsOf(_, _)
StatementsOf(ss, kinds) ==
    IF ss = <<>> THEN <<>>
    ELSE (IF Head(ss).kind \in kinds THEN <<Head(ss)>> ELSE <<>>)
         \o StatementsOf(Head(ss).body, kinds)
         \o StatementsOf(Tail(ss), kinds)

\* The name the specification gives a unit: its own, or 'anonymous'.
NameOf(s) == IF s.name = "" THEN "anonymous" ELSE s.name

\* The identifiers of a parameter list, in declaration order.
ParameterIdentifiers(ps) == [j \in 1..Len(ps) |-> ps[j].id]

Described(kind, ds) ==
    [j \in 1..Len(ds) |-> <<kind, NameOf(ds[j]), ParameterIdentifiers(ds[j].params)>>]

Extracted(rs) == [j \in 1..Len(rs) |-> <<rs[j].type, rs[j].name, rs[j].params>>]

\* The ids of the chunks a finished run produced.
IdsOf(cs) == {cs[j].id : j \in 1..Len(cs)}

\* The chunks the current run has passed to to_embedding so far.
Processed == {chunks[j] : j \in 1..(ci - 1)}

\* ---- C1
\* C1: a second run of the pipeline over unchanged files skips every chunk
\* whose id the first run produced: once a run has finished without error,
\* no later run over the same directory processes a chunk with one of that
\* run's ids again.
C1_IdempotentReingestion ==
    \A r \in 1..Len(log) :
        log[r].exc = "" => \A ch \in Processed : ch.id \notin IdsOf(log[r].chunks)

RECURSIVE Decodable(_)
Decodable(d) ==
    IF d = <<>> THEN <<>>
    ELSE (IF Head(d).utf8 THEN <<Head(d)>> ELSE <<>>) \o Decodable(Tail(d))

SameOutcome(R) == exc = R.exc /\ stdout = R.stdout

\* C3: a file that fails to parse does not touch the other files of the run:
\* a run that has ended has ended as the run over the directory without the
\* failing files ends, with the same chunks emitted.
C3_PartialFailureTolerance ==
    Ended => SameOutcome(script_run(Decodable(disk), hashseed))

\* ---- C4
\* A chunk id is listed by the run when a line of its output carries it.
Listed(id) == \E j \in 1..Len(stdout) : contains(stdout[j], id)

\* C4: when a run ends, every chunk id extracted during the run is reported:
\* no chunk is persisted to a store, so each id is listed by the run.
C4_RunReportComplete ==
    pc = "done" => \A ch \in Range(chunks) : Listed(ch.id)

\* ---- C5
\* C5: when the provider fails, embed is called again: every finished call
\* that ended in a provider failure asked the provider more than once.
C5_BoundedRetry ==
    \A i \in 1..Len(embedLog) :
        embedLog[i].outcome = "raised" => embedLog[i].attempts > 1

\* ---- C7
\* The files whose text the run passed to normalize: the last file read.
ExtractedFiles(hits) == IF hits = <<>> THEN {} ELSE {hits[Len(hits)]}

\* C7: every file of the run reaches the extracted state: when the run is
\* over, the text of each discovered file has been parsed and extracted.
C7_EveryFileExtracted ==
    pc = "done" => Range(files) \subseteq ExtractedFiles(service_files(files))

\* ---- C8
\* C8: for every function declaration of the file there is exactly one
\* function record, with the declaration's name and its parameter
\* identifiers in declaration order.
C8_FunctionExtraction ==
    parsed_js # None =>
        /\ parsed_js.exc = ""
        /\ Extracted(parsed_js.val.functions)
             = Described("function", StatementsOf(TheFile, {"function"}))

\* ---- C9
\* The bindings of ss whose initializer is an arrow function.
ArrowBindings(vs) ==
    SelectSeq_(vs, {v \in Range(vs) : v.value \in {"arrow", "arrow1"}})

\* C9: for every binding whose initializer is an arrow function there is
\* exactly one arrow_function record, with the binding's name and the arrow
\* function's parameter identifiers in order, and no record for any other
\* binding.
C9_ArrowExtraction ==
    (parsed_js # None /\ parsed_js.exc = "") =>
        Extracted(parsed_js.val.arrow_functions)
          = Described("arrow_function", ArrowBindings(StatementsOf(TheFile, {"var"})))

\* ---- C10
\* The texts of the nodes of the given types in the tree.
SpansOf(ns, code) == {node_text(code, ns[j]) : j \in 1..Len(ns)}

UnitSpans(p, types) == SpansOf(SelectNodes(PreOrder(p.root_node), types), p.code)

CodesOf(rs) == {rs[j].code : j \in 1..Len(rs)}

\* C10: the code of every function, arrow-function and class record is the
\* whole text of a unit of its kind in the file: a function declaration, a
\* binding or its arrow function, a class declaration.
C10_CodeIsWholeUnit ==
    (parsed_js # None /\ parsed_js.exc = "") =>
        /\ CodesOf(parsed_js.val.functions)
             \subseteq UnitSpans(parse(script_code), {"function_declaration"})
        /\ CodesOf(parsed_js.val.arrow_functions)
             \subseteq UnitSpans(parse(script_code),
                                 {"lexical_declaration", "variable_declarator",
                                  "arrow_function"})
        /\ CodesOf(parsed_js.val.classes)
             \subseteq UnitSpans(parse(script_code), {"class_declaration"})

\* ---- C11
\* The positions of the records (or chunks) named 'anonymous'.
Anonymous(rs) == {j \in 1..Len(rs) : rs[j].name = "anonymous"}

\* The positions of the statements without a name node.
Nameless(ds) == {j \in 1..Len(ds) : ds[j].name = ""}

NamelessFunctions == Nameless(StatementsOf(TheFile, {"function"}))
NamelessArrows == Nameless(ArrowBindings(StatementsOf(TheFile, {"var"})))

\* C11: extraction does not fail on a function declaration or arrow binding
\* without a name node: each gives a record named 'anonymous', and each is
\* emitted as a chunk of its own.
C11_AnonymousUnits ==
    parsed_js # None =>
        /\ parsed_js.exc = ""
        /\ Cardinality(Anonymous(parsed_js.val.functions))
             = Cardinality(NamelessFunctions)
        /\ Cardinality(Anonymous(parsed_js.val.arrow_functions))
             = Cardinality(NamelessArrows)
        /\ pc \in {"print", "done"} =>
             Cardinality(Anonymous(chunks))
               >= Cardinality(NamelessFunctions) + Cardinality(NamelessArrows)

\* ---- C12
\* The kind, name, language and code of each record (or chunk), in order.
UnitFields(rs) ==
    [j \in 1..Len(rs) |-> <<rs[j].type, rs[j].name, rs[j].language, rs[j].code>>]

ParamsOf(rs) == [j \in 1..Len(rs) |-> rs[j].params]

\* The chunks are the records one for one, functions first, then arrow
\* functions, then classes, each with its record's fields.
FieldPreserving(cs, fns, ars, clss) ==
    /\ UnitFields(cs) = UnitFields(fns) \o UnitFields(ars) \o UnitFields(clss)
    /\ ParamsOf(SubSeq(cs, 1, Len(fns) + Len(ars))) = ParamsOf(fns) \o ParamsOf(ars)

\* C12: for any analysed file, one with classes and no function declaration
\* included, normalize returns exactly one chunk per function, arrow-function
\* and class record, carrying the record's kind, name, language, params and
\* code.
C12_NormalizeFieldPreserving ==
    (parsed_js # None /\ parsed_js.exc = "") =>
        /\ pc # "aborted"
        /\ FieldPreserving(chunks, parsed_js.val.functions,
                           parsed_js.val.arrow_functions, parsed_js.val.classes)

\* ---- C13
\* The method records of all class records, in order.
MethodRecords(clss) == Flatten([j \in 1..Len(clss) |-> clss[j].methods])

\* The methods the file declares, in source order.
DeclaredMethods == StatementsOf(TheFile, {"method"})

\* The this-rooted properties a method body assigns.
ThisAssigned(body) ==
    {"this." \o body[j].name :
        j \in {k \in 1..Len(body) : body[k].kind = "assign" /\ body[k].value = "this"}}

NoDuplicates(q) == Cardinality(Range(q)) = Len(q)

MutationSemantics(m, body) ==
    /\ ThisAssigned(body) \subseteq Range(m.mutations)
    /\ NoDuplicates(m.mutations)
    /\ m.mutatesState <=> (m.mutations # <<>>)
    /\ ThisAssigned(body) = {} => (~m.mutatesState /\ m.mutations = <<>>)

MethodsSatisfy(ms, ds, P(_, _)) ==
    /\ Len(ms) = Len(ds)
    /\ \A j \in 1..Len(ms) : P(ms[j], ds[j].body)

\* C13: for every method, mutations holds each this-rooted property the body
\* assigns exactly once, mutatesState is true exactly when mutations is not
\* empty, and a method without such an assignment has mutatesState false and
\* no mutations.
C13_MutationSetSemantics ==
    (parsed_js # None /\ parsed_js.exc = "") =>
        MethodsSatisfy(MethodRecords(parsed_js.val.classes), DeclaredMethods,
                       MutationSemantics)

\* ---- C14
CalleeText(s) == IF s.value = "" THEN s.name ELSE s.value \o "." \o s.name

\* The callee texts of the invocations in a method body.
Callees(body) ==
    {CalleeText(body[j]) : j \in {k \in 1..Len(body) : body[k].kind = "call"}}

CallSemantics(m, body) ==
    /\ Range(m.calls) = Callees(body)
    /\ NoDuplicates(m.calls)

\* C14: for every method, calls holds the callee text of every invocation in
\* the method body, each distinct text exactly once.
C14_CallSetSemantics ==
    (parsed_js # None /\ parsed_js.exc = "") =>
        MethodsSatisfy(MethodRecords(parsed_js.val.classes), DeclaredMethods,
                       CallSemantics)

\* A method invoking one callee three times was extracted with that callee
\* once.
ThreeCallsOfGo(m, body) ==
    /\ Len(body) = 3
    /\ \A k \in 1..3 : body[k].kind = "call" /\ CalleeText(body[k]) = "go"
    /\ m.calls = <<"go">>

C14_Witness ==
    /\ parsed_js # None /\ parsed_js.exc = ""
    /\ MethodRecords(parsed_js.val.classes) # <<>>
    /\ ThreeCallsOfGo(MethodRecords(parsed_js.val.classes)[1], DeclaredMethods[1].body)

\* ---- C15
\* The distinct values of q in the order of their first occurrence.
RECURSIVE FirstOccurrences(_)
FirstOccurrences(q) ==
    IF q = <<>> THEN <<>>
    ELSE LET rest == FirstOccurrences(SubSeq(q, 1, Len(q) - 1)) IN
         IF q[Len(q)] \in Range(rest) THEN rest ELSE Append(rest, q[Len(q)])

\* The callee texts, and the this-rooted assignment targets, of a body in
\* source order, one entry per occurrence.
CallSequence(body) ==
    LET cs == SelectSeq_(body, {s \in Range(body) : s.kind = "call"}) IN
    [j \in 1..Len(cs) |-> CalleeText(cs[j])]

MutationSequence(body) ==
    LET as == SelectSeq_(body, {s \in Range(body) :
                                   s.kind = "assign" /\ s.value = "this"}) IN
    [j \in 1..Len(as) |-> "this." \o as[j].name]

OrderedSemantics(m, body) ==
    /\ m.calls = FirstOccurrences(CallSequence(body))
    /\ ThisAssigned(body) = Range(m.mutations) =>
           m.mutations = FirstOccurrences(MutationSequence(body))

\* C15: for every method, calls and mutations list their values in the order
\* of first occurrence in the method body.
C15_FirstOccurrenceOrder ==
    (parsed_js # None /\ parsed_js.exc = "") =>
        MethodsSatisfy(MethodRecords(parsed_js.val.classes), DeclaredMethods,
                       OrderedSemantics)

\* C15, second part: two extractions of the same source give the same
\* method records.
C15_SameSequencesAgain ==
    \A r \in 1..Len(log) :
        (parsed_js # None /\ parsed_js.exc = "" /\ log[r].parsed_js.exc = "") =>
            MethodRecords(parsed_js.val.classes)
              = MethodRecords(log[r].parsed_js.val.classes)

\* ---- C16
\* C16: every chunk normalize returns for a file carries the file's import
\* list and the file's export descriptors.
C16_FileContextOnEveryChunk ==
    (parsed_js # None /\ parsed_js.exc = "" /\ pc \in {"print", "done"}) =>
        \A ch \in Range(chunks) :
            /\ ch.imports = parsed_js.val.imports
            /\ ch.exports = parsed_js.val.exports

\* ---- C17
NonIncreasing(docs, query) ==
    \A i, j \in 1..Len(docs) :
        i < j => Similarity(query, docs[i]) >= Similarity(query, docs[j])

\* C17: a search with limit k returns min(k, corpus size) results, in order
\* of non-increasing similarity to the query.
C17_RetrievalRanking ==
    results # None =>
        /\ Len(results.docs) = Min(wanted.k, Cardinality(collection))
        /\ NonIncreasing(results.docs, wanted.query)


\* ---- C18
\* The rows of a table that differ between two of its states.
ChangedRows(before, after) ==
    { i \in 1..Len(after) : i > Len(before) \/ after[i] # before[i] }

ItemCall(r, cart_item, cart, before, after) ==
    /\ after # before =>
          /\ cart_item # None
          /\ cart # None
          /\ cart_item.cart_id = cart.id
          /\ Len(after) = Len(before)
          /\ ChangedRows(before, after) = {r.id}
    /\ cart_item = None => r.status_code = 404 /\ after = before
    /\ (cart_item # None /\ (cart = None \/ cart_item.cart_id # cart.id)) =>
          r.status_code = 403 /\ after = before

\* C18: update_cart_item and remove_from_cart change or delete a cart item
\* only when the item exists and belongs to the calling user's cart, and only
\* that item; a missing item raises 404, an item of another cart or a user
\* without cart raises 403, and in both cases the cart_items table stays as
\* it was.
C18_CartItemOwnership ==
    [][ response'.op \in {"update_cart_item", "remove_from_cart"} =>
          ItemCall(response', get_by_id(cart_items, response'.id),
                   cart_of(carts, response'.user_id), cart_items, cart_items')
      ]_vars

\* A user who has a cart was refused another user's item, which is still there.
C18_Witness ==
    /\ response # None
    /\ response.op = "remove_from_cart"
    /\ response.status_code = 403
    /\ cart_of(carts, response.user_id) # None
    /\ get_by_id(cart_items, response.id) # None


\* ---- C19
Refused(r, status_code, cs, cs_, items, items_) ==
    r.status_code = status_code /\ cs_ = cs /\ items_ = items

AddCall(r, product, cs, cs_, items, items_) ==
    /\ (cs_ # cs \/ items_ # items) =>
          /\ product # None
          /\ product.is_active
          /\ product.stock >= r.quantity
    /\ product = None => Refused(r, 404, cs, cs_, items, items_)
    /\ (product # None /\ ~product.is_active) =>
          Refused(r, 400, cs, cs_, items, items_)
    /\ (product # None /\ product.is_active /\ product.stock < r.quantity) =>
          Refused(r, 400, cs, cs_, items, items_)

\* C19: add_to_cart writes to the carts or cart_items table only for a
\* product that exists, is active and has at least the requested quantity in
\* stock; a missing product raises 404, an inactive one 400, one short of
\* stock 400, and each of these leaves both tables as they were (no cart is
\* created, no item added or modified).
C19_AddToCartPreconditions ==
    [][ response'.op = "add_to_cart" =>
          AddCall(response', get_by_id(products, response'.id),
                  carts, carts', cart_items, cart_items')
      ]_vars

\* A first call of a user, for more than the stock of an active product, was
\* refused, and the user still has no cart.
C19_Witness ==
    /\ response # None
    /\ response.op = "add_to_cart"
    /\ response.status_code = 400
    /\ get_by_id(products, response.id).is_active
    /\ get_by_id(products, response.id).stock < response.quantity
    /\ cart_of(carts, response.user_id) = None


\* ---- C20
HasTokens(r) == r.access_token # None \/ r.refresh_token # None

Unauthorized(r) ==
    /\ r.status_code = 401
    /\ r.detail = "Email ou mot de passe incorrect"
    /\ ~HasTokens(r)

LoginContract(r, user) ==
    /\ HasTokens(r) =>
          /\ user # None
          /\ verify_password(r.password, user.password_hash)
          /\ user.is_active
          /\ r.access_token # None /\ r.refresh_token # None
    /\ user = None => Unauthorized(r)
    /\ (user # None /\ ~verify_password(r.password, user.password_hash)) =>
          Unauthorized(r)
    /\ (user # None /\ verify_password(r.password, user.password_hash)
          /\ ~user.is_active) =>
          r.status_code = 403 /\ ~HasTokens(r)

\* C20: login returns an access and a refresh token only for an email that
\* has a user whose stored hash the password verifies against and whose
\* account is active; an unknown email and a wrong password raise the same
\* 401 with the same message, an inactive account raises 403 when the
\* password is right and 401 when it is wrong.
C20_LoginOutcomes ==
    (response # None /\ response.op = "login") =>
        LoginContract(response, get_by_email(users, response.email))

\* A wrong password was given for an inactive account, and 401 raised.
C20_Witness ==
    /\ response # None
    /\ response.op = "login"
    /\ get_by_email(users, response.email) # None
    /\ ~get_by_email(users, response.email).is_active
    /\ ~verify_password(response.password,
                        get_by_email(users, response.email).password_hash)
    /\ response.status_code = 401


\* ---- C21
RowsOfCart(items, cart_id) ==
    { i \in 1..Len(items) : items[i] # None /\ items[i].cart_id = cart_id }

Orderable(ps, item) ==
    /\ get_by_id(ps, item.product_id) # None
    /\ get_by_id(ps, item.product_id).is_active
    /\ get_by_id(ps, item.product_id).stock >= item.quantity

ValidationContract(r, rows) ==
    /\ r.is_valid <=> (rows # {} /\ \A i \in rows : Orderable(products, cart_items[i]))
    /\ r.is_valid <=> r.errors = <<>>
    /\ rows = {} => (~r.is_valid /\ Len(r.errors) = 1 /\ r.lookups = <<>>)

\* C21: validate_cart returns is_valid true exactly when the user's cart has
\* items and the product of every item exists, is active and has at least
\* the item's quantity in stock; is_valid is true exactly when the error
\* list is empty; an empty cart gives FALSE with one error and no product
\* lookup.
C21_ValidateCart ==
    (response # None /\ response.op = "validate_cart"
        /\ response.status_code = 200) =>
        ValidationContract(response,
            RowsOfCart(cart_items, cart_of(carts, response.user_id).id))

\* A cart whose only fault is a withdrawn product was found invalid.
C21_Witness ==
    /\ response # None
    /\ response.op = "validate_cart"
    /\ response.status_code = 200
    /\ ~response.is_valid
    /\ RowsOfCart(cart_items, cart_of(carts, response.user_id).id) # {}
    /\ \A i \in RowsOfCart(cart_items, cart_of(carts, response.user_id).id) :
          /\ get_by_id(products, cart_items[i].product_id) # None
          /\ ~get_by_id(products, cart_items[i].product_id).is_active
          /\ get_by_id(products, cart_items[i].product_id).stock
                >= cart_items[i].quantity


\* ---- C22
ExactMutations(m, body) == Range(m.mutations) = ThisAssigned(body)

\* C22: for every method, an assignment target is in mutations if and only
\* if it is a property access rooted at this; a property of another object
\* whose text merely contains "this." and a plain variable are not recorded.
C22_MutationDetectionExact ==
    (parsed_js # None /\ parsed_js.exc = "") =>
        MethodsSatisfy(MethodRecords(parsed_js.val.classes), DeclaredMethods,
                       ExactMutations)


\* ---- C23
\* The classes of the file that lack the name field, and those that have it.
Malformed(ss) == SelectSeq(StatementsOf(ss, {"class"}), LAMBDA s : s.name = "")
WellFormed(ss) == SelectSeq(StatementsOf(ss, {"class"}), LAMBDA s : s.name # "")

ClassNames(rs) == [j \in 1..Len(rs) |-> rs[j].name]

\* C23: when a class declaration of the file has no name field, extraction
\* of the file still succeeds and the functions and the well-formed classes
\* of the file are extracted as they would be without it.
C23_UnitFailureIsolation ==
    (parsed_js # None /\ Malformed(TheFile) # <<>>) =>
        /\ parsed_js.exc = ""
        /\ Extracted(parsed_js.val.functions)
              = Described("function", StatementsOf(TheFile, {"function"}))
        /\ ClassNames(parsed_js.val.classes)
              = [j \in 1..Len(WellFormed(TheFile)) |-> WellFormed(TheFile)[j].name]


\* ---- C24
\* The error markers of the file, and its statements outside them.
ErrorMarkers(ss) == SelectSeq(ss, LAMBDA s : s.kind = "error")
OutsideErrors(ss, kinds) ==
    StatementsOf(SelectSeq(ss, LAMBDA s : s.kind # "error"), kinds)

\* C24: when the tree of a file holds error markers, extraction does not
\* fail, no function or class record comes from a node inside an error
\* marker, and the functions and classes outside are extracted as usual.
C24_ErrorSubtreesSkipped ==
    (parsed_js # None /\ ErrorMarkers(TheFile) # <<>>) =>
        /\ parsed_js.exc = ""
        /\ Extracted(parsed_js.val.functions)
              = Described("function", OutsideErrors(TheFile, {"function"}))
        /\ ClassNames(parsed_js.val.classes)
              = [j \in 1..Len(OutsideErrors(TheFile, {"class"})) |->
                    OutsideErrors(TheFile, {"class"})[j].name]


\* ---- C25
\* The chunks of the class records are the last ones, one per record, each
\* holding its record's method list as its metadata.
MethodsNested(cs, clss, before) ==
    /\ Len(cs) = before + Len(clss)
    /\ \A j \in 1..Len(clss) :
          cs[before + j].metadata = {<<"methods", clss[j].methods>>}

\* C25: for any analysed file, normalize returns one chunk per function,
\* arrow-function and class record and none for a method, and the chunk of
\* each class record holds the record's method list unchanged in its
\* metadata.
C25_MethodsStayNested ==
    (parsed_js # None /\ parsed_js.exc = "") =>
        /\ pc # "aborted"
        /\ MethodsNested(chunks, parsed_js.val.classes,
                         Len(parsed_js.val.functions)
                            + Len(parsed_js.val.arrow_functions))


\* ---- C26
\* The module specifiers of the import statements of the file, in source
\* order, one per statement.
ImportedModules(ss) ==
    [j \in 1..Len(StatementsOf(ss, {"import"})) |->
        StatementsOf(ss, {"import"})[j].name]

\* C26: extract_imports returns the module specifier of every import
\* statement in source order, one entry per occurrence, without the quotes
\* around it, and no string literal from outside an import statement.
C26_ImportsInSourceOrder ==
    (parsed_js # None /\ parsed_js.exc = "") =>
        parsed_js.val.imports = ImportedModules(TheFile)


\* ---- C27
ValidityAgrees(cs, id, t, valid) ==
    /\ valid = validate_code(cs, cs[id].code, t).is_valid
    /\ valid = (id \in get_valid_coupons(cs, t))
    /\ count_valid(cs, t)
          = Cardinality({ i \in 1..Len(cs) : is_valid(cs, i, t) })
    /\ ~(valid /\ id \in get_expired_coupons(cs, t))

\* C27: at any time and for every coupon, is_valid of its id, validate_code
\* of its code and the condition of get_valid_coupons and count_valid give
\* the same answer, also when expires_at is the current time, and no valid
\* coupon is among the expired ones.
C27_CouponValidityAgrees ==
    (response # None /\ response.op = "is_valid"
        /\ response.arg \in 1..Len(coupons)) =>
        ValidityAgrees(coupons, response.arg, now, response.result)


\* ---- C28
UniqueEmails(us) ==
    \A i, j \in 1..Len(us) : us[i].email = us[j].email => i = j

\* C28: whatever register calls took place and however their steps
\* interleaved, no two users have the same email and every user has the role
\* customer; a call refused with 400 is one for an email in use, and it
\* creates no user.
C28_EmailUniqueness ==
    [][ /\ UniqueEmails(users')
        /\ \A i \in 1..Len(users') : users'[i].role = "customer"
        /\ (response' # None /\ response' # response
              /\ response'.status_code = 400) =>
              (email_exists(users, response'.email) /\ users' = users)
      ]_vars


\* ---- C29
StockRefusal(r, product, ps, ps_) ==
    /\ r.status_code = 400 =>
          (r.op = "decrease_stock" /\ product.stock < r.quantity /\ ps_ = ps)
    /\ r.status_code = 404 => (product = None /\ ps_ = ps)

\* C29: whatever decrease_stock and increase_stock calls took place and
\* however their steps interleaved, the stock of a product that started at
\* zero or more is zero or more; a decrease refused with 400 asked for more
\* than the stock and a call refused with 404 named no product, and neither
\* changes anything.
C29_StockNeverNegative ==
    [][ /\ \A p \in 1..Len(products') : products'[p].stock >= 0
        /\ (response' # None /\ response' # response) =>
              StockRefusal(response', get_by_id(products, response'.product_id),
                           products, products')
      ]_vars


\* What a call that names an existing payment may write: the status always,
\* paid_at as want_paid_at says, nothing else of the row and no other row.
PaymentWrites(call, want_paid_at) ==
    /\ Len(payments') = Len(payments)
    /\ \A i \in 1..Len(payments) :
        IF i = call.payment_id
        THEN /\ payments'[i].status = call.status
             /\ payments'[i].paid_at = want_paid_at
             /\ payments'[i].transaction_reference
                    = payments[i].transaction_reference
        ELSE payments'[i] = payments[i]

PaidAtContract ==
    LET call == response' IN
    /\ call.op = "update_status" /\ call.payment_id \in 1..Len(payments)
        => PaymentWrites(call,
               IF call.paid_at # <<>> THEN call.paid_at
               ELSE IF call.status = "SUCCESS" THEN <<now>>
               ELSE payments[call.payment_id].paid_at)
    /\ call.op \in {"mark_as_failed", "mark_as_refunded"}
       /\ call.payment_id \in 1..Len(payments)
        => PaymentWrites(call, payments[call.payment_id].paid_at)
    /\ call.op \in {"update_status", "mark_as_failed", "mark_as_refunded"}
       /\ call.payment_id \notin 1..Len(payments)
        => payments' = payments

\* C30: update_status writes paid_at in two cases only, the given value when
\* a paid_at is passed and the current time when the new status is SUCCESS
\* and none is passed; in every other case it changes the status alone, so
\* mark_as_failed and mark_as_refunded keep the paid_at and the
\* transaction_reference of a payment that was paid.
C30_PaidAtWrittenInTwoCases == [][PaidAtContract]_vars

\* A payment that was paid has been marked failed or refunded and still
\* carries its paid_at.
C30_Witness ==
    /\ response # None
    /\ response.op \in {"mark_as_failed", "mark_as_refunded"}
    /\ response.payment_id \in 1..Len(payments)
    /\ payments[response.payment_id].status = response.status
    /\ payments[response.payment_id].paid_at # <<>>

====
